---- MODULE Spec2Model ----
(***************************************************************************)
(* Factory Guardian: the scheduled monitor (auto_monitor.py) and the       *)
(* scoring functions of the reports and dashboards.                        *)
(*                                                                         *)
(* The model follows the main loop of auto_monitor.py step by step: the    *)
(* read of sensor_data.csv, the per-machine evaluation (check_machine and  *)
(* the anomaly-count policy), send_telegram with its chunk loop, the two   *)
(* sleeps and the two except clauses of the loop.                          *)
(*                                                                         *)
(* Numbers.  Readings are integers and every comparison the code makes on  *)
(* floats (b_std > 0, abs(z_score) > abs(threshold)) is decided exactly,   *)
(* on the cross-multiplied integers; a z-score is carried as its sign and  *)
(* the fraction z^2 = num / den.                                           *)
(*                                                                         *)
(* The scoring functions (calculate_basic_stats of analyzer.py,             *)
(* get_z_scores, calculate_health_score and get_alert_level of             *)
(* dashboard.py and app.py, calculate_health and get_status_emoji of       *)
(* email_report.py) are operators; EngineSpec applies each of them to a    *)
(* machine series or a health score drawn from a bounded set.  There a     *)
(* float is inf, -inf, nan or an exact fraction, round(x, n) is the        *)
(* nearest multiple of 10^-n with ties to even, and a health score is a    *)
(* number of tenths.  A z-score is tested unrounded, as the code tests it,  *)
(* and round(z, n), the value the code stores and shows, is found by a     *)
(* search for the nearest multiple of 10^-n of the square root of z^2.     *)
(*                                                                         *)
(* Telemetry.  sensor_data.csv is carried as its header (cols) and the     *)
(* fleet that produced it (one series description per machine); Rows       *)
(* expands that to the rows pandas reads, one row per machine and          *)
(* timestamp, and all of the code's row handling (unique, the boolean      *)
(* filter, head, tail, mean, std) is computed on those rows.               *)
(***************************************************************************)
EXTENDS Integers, Sequences, FiniteSets, TLC

VARIABLES
    sensor_data_csv,  \* the telemetry file on disk (status, cols, fleet)
    CHECK_INTERVAL,   \* auto_monitor.py:160, seconds between two cycles
    configured,       \* TELEGRAM_BOT_TOKEN and TELEGRAM_CHAT_ID are both set
    pc,               \* position of the main loop
    came_from,        \* how the current cycle was entered: boot, interval, backoff
    data,             \* run_monitoring_cycle's local DataFrame
    machines,         \* run_monitoring_cycle's local list of machine ids
    idx,              \* index of the machine the for loop is at (0 outside it)
    message,          \* send_telegram's argument while its chunk loop runs
    chunk,            \* index of the chunk about to be posted (0 outside)
    evaluated,        \* this cycle's log: one entry per machine check_machine returned for
    dispatched,       \* this cycle's calls of send_telegram, in order
    posts,            \* this cycle's calls of requests.post, in order
    last_exc,         \* the last exception raised in this cycle, caught or not
    slept,            \* argument of the time.sleep in progress or last finished
    previous_alerted, \* history: the machines the previous cycle called send_telegram for
    subject,          \* the argument of the function under evaluation: a series or a score
    retval,           \* what the function applied last returned for subject
    sensor_data_live_csv, \* sensor_simulator.py:101, the file the simulator writes
    GROQ_API_KEY,     \* the environment holds a key for the AI service
    report_pc,        \* position of analyzer.main
    report_data,      \* analyzer.main's local data
    stats,            \* analyzer.main's local stats
    analysis,         \* analyzer.main's local analysis
    analysis_report_txt,  \* analyzer.py:252, the file save_report writes
    alert_posts,      \* the calls of requests.post of send_telegram_alert, in order
    session_state,    \* dashboard.py: st.session_state
    now,              \* the dashboard's clock, datetime.now()
    last_click        \* the button pressed last on the AI Analysis page and what it led to

\* the arguments and results of the scoring functions, which the monitor never touches
engine_vars == <<subject, retval>>

\* the monitor's own state, with its history
monitor_vars == <<sensor_data_csv, CHECK_INTERVAL, configured, pc, came_from, data, machines,
                  idx, message, chunk, evaluated, dispatched, posts, last_exc, slept,
                  previous_alerted>>

\* the simulator's file
simulator_vars == <<sensor_data_live_csv>>

\* the state of the report generator, analyzer.main
report_vars == <<GROQ_API_KEY, report_pc, report_data, stats, analysis, analysis_report_txt,
                 alert_posts>>

\* the state of the dashboard's AI Analysis page
dashboard_vars == <<session_state, now, last_click>>

\* what neither the monitor nor the scoring functions touch
rest_vars == <<simulator_vars, report_vars, dashboard_vars>>

vars == <<sensor_data_csv, CHECK_INTERVAL, configured, pc, came_from, data, machines, idx,
          message, chunk, evaluated, dispatched, posts, last_exc, slept, previous_alerted,
          subject, retval, sensor_data_live_csv, GROQ_API_KEY, report_pc, report_data, stats,
          analysis, analysis_report_txt, alert_posts, session_state, now, last_click>>

-----------------------------------------------------------------------------
(* Bounds of the model *)

\* machines in one telemetry file
MaxMachines == 2
\* readings per machine in one telemetry file
SeriesLen == 13
\* iterations of the simulator's loop
MaxIterations == 2
\* chunks of the longest message handed to a sender
MaxChunks == 3
\* button presses in one dashboard session
MaxClicks == 3

-----------------------------------------------------------------------------
(* Program constants *)

\* machines = [MachineSimulator(...), ...]: the simulator's five machines
SimulatedMachines == 5
\* characters of the alert message of analyzer.main before the analysis
AlertHeaderLen == 26
\* baseline = data.head(10)
BaselineSize == 10
\* current = data.tail(3)
CurrentSize == 3
\* max_len = 4000
max_len == 4000
\* time.sleep(60) of the except Exception clause
BackoffSeconds == 60
\* CHECK_INTERVAL = 60 (testing)
TestingInterval == 60
\* "For PRODUCTION: change to 7200 (2 hours)"
ProductionInterval == 7200
\* characters of the alert message besides machine_type and the alert entries
TemplateLen == 192
\* characters of one "Abnormal Parameters" entry of the message
AlertEntryLen == 64

Channels == <<"vibration_g", "temperature_c", "pressure_bar", "power_kw">>

ChannelSet == {Channels[i] : i \in 1..Len(Channels)}

AllCols == {"timestamp", "machine_id", "machine_type", "rpm"} \cup ChannelSet

\* the checks dict of check_machine
checks ==
    [vibration_g   |-> [direction |-> "up",   threshold |-> 2,  name |-> "Vibration"],
     temperature_c |-> [direction |-> "up",   threshold |-> 2,  name |-> "Temperature"],
     pressure_bar  |-> [direction |-> "down", threshold |-> -2, name |-> "Pressure"],
     power_kw      |-> [direction |-> "up",   threshold |-> 2,  name |-> "Power Draw"]]

MachineIds == <<"FRN-001", "FRN-002", "CRS-001", "MLD-001", "BLR-001">>

-----------------------------------------------------------------------------
(* The telemetry the producer can write *)

Min(a, b) == IF a < b THEN a ELSE b
Max(a, b) == IF a > b THEN a ELSE b

\* Reading i of n of a channel that follows profile p.
ProfileValue(p, i, n) ==
    LET recent == i > n - CurrentSize
        noise  == i % 2
    IN  CASE p = "steady"   -> 10 + noise
          [] p = "rising"   -> IF recent THEN 14 ELSE 10 + noise
          [] p = "falling"  -> IF recent THEN 7 ELSE 10 + noise
          [] p = "flatjump" -> IF recent THEN 20 ELSE 10

Series(vib, temp, pres, pow, bad, tlen) ==
    [vibration_g |-> vib, temperature_c |-> temp, pressure_bar |-> pres,
     power_kw |-> pow, nonnum |-> bad, type_len |-> tlen]

\* The machine series a file can hold: four channel profiles, the channels
\* holding a non-numeric cell, and the length of the machine_type text.
Kinds ==
    { Series("steady", "steady", "steady", "steady", {}, 8),
      Series("rising", "steady", "steady", "steady", {}, 8),
      Series("falling", "steady", "rising", "steady", {}, 8),
      Series("rising", "rising", "steady", "rising", {}, 8),
      Series("rising", "rising", "falling", "rising", {}, 8),
      Series("flatjump", "steady", "steady", "steady", {}, 8),
      Series("steady", "rising", "steady", "steady", {"temperature_c"}, 8),
      Series("steady", "steady", "steady", "rising", {}, max_len) }

Fleets == UNION {[1..n -> Kinds] : n \in 0..MaxMachines}

MissingFile == [status |-> "missing", cols |-> {}, fleet |-> <<>>]
EmptyFile == [status |-> "empty", cols |-> {}, fleet |-> <<>>]
CsvFile(c, f) == [status |-> "ok", cols |-> c, fleet |-> f]

HealthyKind == Series("steady", "steady", "steady", "steady", {}, 8)
DegradedKind == Series("rising", "rising", "steady", "rising", {}, 8)

\* Files whose header lacks a column.
LackingFiles ==
    {CsvFile(AllCols \ {c}, <<DegradedKind>>) :
        c \in ChannelSet \cup {"timestamp", "machine_id", "machine_type"}}

Files == {MissingFile, EmptyFile} \cup {CsvFile(AllCols, f) : f \in Fleets}
            \cup LackingFiles

\* What the producer may turn the file into while the monitor runs.
Rewrites == {MissingFile, CsvFile(AllCols, <<HealthyKind, DegradedKind>>)}

\* The rows of a file, as pd.read_csv returns them: at each timestamp one
\* row per machine, in fleet order.
Rows(f) ==
    LET L == Len(f.fleet)
    IN  [r \in 1..(SeriesLen * L) |->
            LET t == ((r - 1) \div L) + 1
                j == ((r - 1) % L) + 1
                k == f.fleet[j]
            IN  [timestamp |-> t,
                 machine_id |-> MachineIds[j],
                 machine_type_len |-> k.type_len,
                 vibration_g |-> ProfileValue(k.vibration_g, t, SeriesLen),
                 temperature_c |-> ProfileValue(k.temperature_c, t, SeriesLen),
                 pressure_bar |-> ProfileValue(k.pressure_bar, t, SeriesLen),
                 power_kw |-> ProfileValue(k.power_kw, t, SeriesLen),
                 nonnum |-> IF t = SeriesLen THEN k.nonnum ELSE {}]]

-----------------------------------------------------------------------------
(* pandas: the operations the monitor uses *)

RECURSIVE Sum(_)
Sum(s) == IF s = <<>> THEN 0 ELSE Head(s) + Sum(Tail(s))

RECURSIVE SumSq(_)
SumSq(s) == IF s = <<>> THEN 0 ELSE Head(s) * Head(s) + SumSq(Tail(s))

RECURSIVE Unique(_)
\* Series.unique(): the distinct values in order of first appearance.
Unique(s) ==
    IF s = <<>> THEN <<>>
    ELSE LET h == Head(s)
             NotHead(x) == x # h
         IN  <<h>> \o Unique(SelectSeq(Tail(s), NotHead))

\* data[data['machine_id'] == machine_id]
RowsOf(rows, machine_id) ==
    LET Mine(r) == r.machine_id = machine_id
    IN  SelectSeq(rows, Mine)

\* DataFrame.head(n)
HeadRows(rows, n) == SubSeq(rows, 1, Min(n, Len(rows)))

\* DataFrame.tail(n)
TailRows(rows, n) == SubSeq(rows, Max(1, Len(rows) - n + 1), Len(rows))

\* frame[col] as the sequence of its values
Column(rows, col) == [i \in 1..Len(rows) |-> rows[i][col]]

\* frame[col] holds a cell that is not a number (an object column in which
\* read_csv left a string beside the floats): mean() and std() of those rows
\* raise TypeError.
NonNumeric(rows, col) == \E i \in 1..Len(rows) : col \in rows[i].nonnum

-----------------------------------------------------------------------------
(* Floats: a value is inf, -inf, nan or the exact fraction num / den *)

Abs(x) == IF x < 0 THEN -x ELSE x

RECURSIVE Gcd(_, _)
Gcd(a, b) == IF b = 0 THEN a ELSE Gcd(b, a % b)

Finite(n, d) == [kind |-> "finite", num |-> n, den |-> d]

\* num / den on numpy floats: a zero divisor gives inf, -inf or nan (and a
\* RuntimeWarning), never an exception.
Quotient(num, den) ==
    IF den = 0
    THEN [kind |-> IF num > 0 THEN "inf" ELSE IF num < 0 THEN "-inf" ELSE "nan",
          num |-> 0, den |-> 1]
    ELSE LET g == Gcd(Abs(num), Abs(den))
             s == IF den < 0 THEN -1 ELSE 1
         IN  Finite(s * (num \div g), s * (den \div g))

\* round(x, ndigits): the nearest multiple of 10^-ndigits, a tie going to the
\* even one, as the count of those units; inf, -inf and nan are returned as
\* they are.
Round(x, ndigits) ==
    IF x.kind # "finite" THEN [kind |-> x.kind, units |-> 0]
    ELSE LET scaled == x.num * (10 ^ ndigits)
             f == scaled \div x.den
             r == scaled % x.den
         IN  [kind |-> "finite",
              units |-> IF 2 * r < x.den THEN f
                        ELSE IF 2 * r > x.den THEN f + 1
                        ELSE IF f % 2 = 0 THEN f ELSE f + 1]

\* Series.mean()
Mean(s) == Quotient(Sum(s), Len(s))

-----------------------------------------------------------------------------
(* check_machine *)

\* b_std > 0, with b_std the sample standard deviation (ddof = 1) of the
\* baseline values b: NaN for a single value, and NaN > 0 is False.
StdPositive(b) == Len(b) >= 2 /\ Len(b) * SumSq(b) - Sum(b) * Sum(b) > 0

\* c_mean - b_mean = MeanDiffNum / (Len(b) * Len(c))
MeanDiffNum(b, c) == Sum(c) * Len(b) - Sum(b) * Len(c)

\* ZScore with the division made whatever b_std is.
ZScore_NoGuard(b, c) ==
    LET d == MeanDiffNum(b, c)
        v == Len(b) * SumSq(b) - Sum(b) * Sum(b)
    IN  [sign |-> IF d > 0 THEN 1 ELSE IF d < 0 THEN -1 ELSE 0,
         num  |-> d * d * (Len(b) - 1),
         den  |-> v * Len(c) * Len(c) * Len(b)]

\* z_score, as its sign and the fraction z^2 = num / den (0 / 1 when b_std is
\* not positive: the else branch z_score = 0).
ZScore(b, c) ==
    IF StdPositive(b)
    THEN LET d == MeanDiffNum(b, c)
             v == Len(b) * SumSq(b) - Sum(b) * Sum(b)
         IN  [sign |-> IF d > 0 THEN 1 ELSE IF d < 0 THEN -1 ELSE 0,
              num  |-> d * d * (Len(b) - 1),
              den  |-> v * Len(c) * Len(c) * Len(b)]
    ELSE [sign |-> 0, num |-> 0, den |-> 1]

RECURSIVE FracLess(_, _, _, _)
\* a / b < c / d for a, c >= 0 and b, d > 0, decided on the integer parts
\* and then on the inverted remainders, so that no product is formed.
FracLess(a, b, c, d) ==
    IF a \div b # c \div d THEN a \div b < c \div d
    ELSE IF c % d = 0 THEN FALSE
    ELSE IF a % b = 0 THEN TRUE
    ELSE FracLess(d, c % d, b, a % b)

RECURSIVE RootFloor(_, _, _, _)
\* The largest r in lo..(hi - 1) with (r / scale)^2 <= z^2, given that lo is
\* such an r and hi is not.
RootFloor(z, scale, lo, hi) ==
    IF hi - lo <= 1 THEN lo
    ELSE LET mid == (lo + hi) \div 2
         IN  IF FracLess(z.num, z.den, mid * mid, scale * scale)
             THEN RootFloor(z, scale, lo, mid)
             ELSE RootFloor(z, scale, mid, hi)

\* round(z_score, ndigits): the nearest multiple of 10^-ndigits of z, a tie
\* going to the even one, as the count of those units with the sign of z;
\* inf, -inf and nan (a zero divisor) are returned as they are.
RoundZ(z, ndigits) ==
    IF z.den = 0
    THEN [kind |-> IF z.sign > 0 THEN "inf" ELSE IF z.sign < 0 THEN "-inf" ELSE "nan",
          units |-> 0]
    ELSE IF z.num = 0 THEN [kind |-> "finite", units |-> 0]
    ELSE LET whole == RootFloor(z, 1, 0, Min(z.num \div z.den + 2, 46340))
             scale == 10 ^ ndigits
             f == RootFloor(z, scale, whole * scale, (whole + 1) * scale)
             half == (2 * f + 1) * (2 * f + 1)
             r == IF FracLess(z.num, z.den, half, 4 * scale * scale) THEN f
                  ELSE IF FracLess(half, 4 * scale * scale, z.num, z.den) THEN f + 1
                  ELSE IF f % 2 = 0 THEN f ELSE f + 1
         IN  [kind |-> "finite", units |-> z.sign * r]

\* ((c_mean - b_mean) / b_mean) * 100
ChangePercent(b, c) == Quotient(100 * MeanDiffNum(b, c), Sum(b) * Len(c))

\* abs(z_score) > abs(config['threshold'])
ExceedsThreshold(z, config) ==
    z.num > config.threshold * config.threshold * z.den

\* One pass of the for loop over checks.items() for column col: the alert it
\* appends, if any, or the exception it raises.
CheckColumn(cols, baseline, current, col) ==
    IF col \notin cols
    THEN [error |-> "KeyError", alerts |-> <<>>]
    ELSE IF NonNumeric(baseline, col) \/ NonNumeric(current, col)
    THEN [error |-> "TypeError", alerts |-> <<>>]
    ELSE LET z == ZScore(Column(baseline, col), Column(current, col))
         IN  [error |-> "none",
              alerts |-> IF ExceedsThreshold(z, checks[col])
                         THEN <<[parameter |-> checks[col].name,
                                 column |-> col,
                                 z_sign |-> z.sign,
                                 z_score_rounded |-> RoundZ(z, 1),
                                 change_percent |->
                                     Round(ChangePercent(Column(baseline, col),
                                                         Column(current, col)), 1)]>>
                         ELSE <<>>]

RECURSIVE CheckColumns(_, _, _, _)
\* The for loop of check_machine from column i on: the first exception ends it.
CheckColumns(cols, baseline, current, i) ==
    IF i > Len(Channels) THEN [error |-> "none", alerts |-> <<>>]
    ELSE LET one == CheckColumn(cols, baseline, current, Channels[i])
         IN  IF one.error # "none" THEN one
             ELSE LET rest == CheckColumns(cols, baseline, current, i + 1)
                  IN  IF rest.error # "none" THEN rest
                      ELSE [error |-> "none", alerts |-> one.alerts \o rest.alerts]

\* check_machine(data): the alerts list it returns, or the exception it raises.
check_machine(cols, machine_data) ==
    CheckColumns(cols,
                 HeadRows(machine_data, BaselineSize),
                 TailRows(machine_data, CurrentSize), 1)

-----------------------------------------------------------------------------
(* run_monitoring_cycle and send_telegram *)

NoData == [status |-> "none", cols |-> {}, fleet |-> <<>>]
NoMessage == [machine_id |-> "", level |-> "", urgency |-> "", alerts |-> <<>>, length |-> 0]
NoException == [type |-> "none", where |-> "", machine |-> 0, chunk |-> 0]
NoSubject == [kind |-> "none"]
NotCalled == [function |-> "none"]
Exception(t, w, m, c) == [type |-> t, where |-> w, machine |-> m, chunk |-> c]

RECURSIVE Reverse(_)
Reverse(s) == IF s = <<>> THEN <<>> ELSE Append(Reverse(Tail(s)), Head(s))

\* Machines listed from the last machine_id to appear to the first.
Machines_LastFirst(d) == Reverse(Unique(Column(Rows(d), "machine_id")))

\* machines = data['machine_id'].unique()
Machines(d) == Unique(Column(Rows(d), "machine_id"))

\* What one cycle computes from a DataFrame, tabulated per file content (the
\* computation is a function of the content alone): the machines list and,
\* per machine, its rows' machine_type and what check_machine returns.
Evaluation ==
    [f \in {g \in Files \cup Rewrites : g.status = "ok"} |->
        LET ids == Machines(f)
        IN  [machines |-> ids,
             machine_type_len |->
                 [i \in 1..Len(ids) |-> RowsOf(Rows(f), ids[i])[1].machine_type_len],
             result |->
                 [i \in 1..Len(ids) |-> check_machine(f.cols, RowsOf(Rows(f), ids[i]))]]]

\* Classify with a level that is held for one cycle: a machine alerted in the
\* previous cycle stays WARNING when it has no alert left.
Classify_Hysteresis(alerts) ==
    IF Len(alerts) >= 3
    THEN [level |-> "CRITICAL", urgency |-> "Immediate inspection required!"]
    ELSE IF Len(alerts) >= 1 \/ machines[idx] \in previous_alerted
    THEN [level |-> "WARNING", urgency |-> "Schedule maintenance within 24 hours."]
    ELSE [level |-> "NORMAL", urgency |-> "All parameters nominal."]

\* Classify with the CRITICAL test written as len(alerts) > 3.
Classify_StrictCritical(alerts) ==
    IF Len(alerts) > 3
    THEN [level |-> "CRITICAL", urgency |-> "Immediate inspection required!"]
    ELSE IF Len(alerts) >= 1
    THEN [level |-> "WARNING", urgency |-> "Schedule maintenance within 24 hours."]
    ELSE [level |-> "NORMAL", urgency |-> "All parameters nominal."]

\* The if / elif / else on len(alerts): the level and its urgency text.
Classify(alerts) ==
    IF Len(alerts) >= 3
    THEN [level |-> "CRITICAL", urgency |-> "Immediate inspection required!"]
    ELSE IF Len(alerts) >= 1
    THEN [level |-> "WARNING", urgency |-> "Schedule maintenance within 24 hours."]
    ELSE [level |-> "NORMAL", urgency |-> "All parameters nominal."]

\* BuildMessage listing only the first abnormal parameter.
BuildMessage_FirstOnly(machine_id, machine_type_len, class, alerts) ==
    [machine_id |-> machine_id,
     level |-> class.level,
     urgency |-> class.urgency,
     alerts |-> IF alerts = <<>> THEN <<>> ELSE <<alerts[1]>>,
     length |-> TemplateLen + machine_type_len + AlertEntryLen]

\* The alert message built for a flagged machine; its text is carried as its
\* parts and its length in characters.
BuildMessage(machine_id, machine_type_len, class, alerts) ==
    [machine_id |-> machine_id,
     level |-> class.level,
     urgency |-> class.urgency,
     alerts |-> alerts,
     length |-> TemplateLen + machine_type_len + AlertEntryLen * Len(alerts)]

\* Chunks keeping the full slices only: a shorter last slice is left out.
Chunks_FullOnly(length) ==
    [i \in 1..(length \div max_len) |->
        [start |-> (i - 1) * max_len, stop |-> i * max_len]]

\* chunks = [message[i:i+max_len] for i in range(0, len(message), max_len)],
\* each chunk as the slice [start, stop) of the message it holds.
Chunks(length) ==
    [i \in 1..((length + max_len - 1) \div max_len) |->
        [start |-> (i - 1) * max_len, stop |-> Min(length, i * max_len)]]

\* Propagate with no except Exception clause around the cycle: the exception
\* ends the process.
Propagate_Uncaught(e) ==
    /\ last_exc' = e
    /\ pc' = "crashed"
    /\ idx' = 0
    /\ chunk' = 0
    /\ message' = NoMessage
    /\ UNCHANGED slept

\* An exception leaves run_monitoring_cycle: the except Exception clause of
\* the main loop prints it and calls time.sleep(60).
Propagate(e) ==
    /\ last_exc' = e
    /\ pc' = "backoff"
    /\ slept' = BackoffSeconds
    /\ idx' = 0
    /\ chunk' = 0
    /\ message' = NoMessage

\* ReturnFromCycle with the sleep written as time.sleep(60).
ReturnFromCycle_FixedSleep ==
    /\ pc' = "sleep"
    /\ slept' = BackoffSeconds
    /\ idx' = 0
    /\ chunk' = 0
    /\ message' = NoMessage

\* run_monitoring_cycle returns: the loop prints "Next check in ..." and
\* calls time.sleep(CHECK_INTERVAL).
ReturnFromCycle ==
    /\ pc' = "sleep"
    /\ slept' = CHECK_INTERVAL
    /\ idx' = 0
    /\ chunk' = 0
    /\ message' = NoMessage

\* The for loop over machines moves on from machine i.
NextMachine(i) ==
    IF i < Len(machines)
    THEN /\ pc' = "machine"
         /\ idx' = i + 1
         /\ chunk' = 0
         /\ message' = NoMessage
         /\ UNCHANGED slept
    ELSE ReturnFromCycle

\* The cycle starts: the file is read and the machines are listed.
ReadTelemetry ==
    /\ pc = "start"
    /\ previous_alerted' = {dispatched[i].machine_id : i \in 1..Len(dispatched)}
    /\ UNCHANGED <<engine_vars, rest_vars>>
    /\ evaluated' = <<>>
    /\ dispatched' = <<>>
    /\ posts' = <<>>
    /\ UNCHANGED <<sensor_data_csv, CHECK_INTERVAL, configured, came_from>>
    /\ IF sensor_data_csv.status = "missing"
       THEN \* except FileNotFoundError: print, return
            /\ data' = NoData
            /\ machines' = <<>>
            /\ last_exc' = Exception("FileNotFoundError", "read", 0, 0)
            /\ ReturnFromCycle
       ELSE IF sensor_data_csv.status = "empty"
       THEN /\ data' = NoData
            /\ machines' = <<>>
            /\ Propagate(Exception("EmptyDataError", "read", 0, 0))
       ELSE IF "timestamp" \notin sensor_data_csv.cols
                 \/ "machine_id" \notin sensor_data_csv.cols
       THEN /\ data' = sensor_data_csv
            /\ machines' = <<>>
            /\ Propagate(Exception("KeyError", "read", 0, 0))
       ELSE /\ data' = sensor_data_csv
            /\ last_exc' = NoException
            /\ \E ids \in {Evaluation[sensor_data_csv].machines} :
                /\ machines' = ids
                /\ IF ids = <<>>
                   THEN ReturnFromCycle
                   ELSE /\ pc' = "machine"
                        /\ idx' = 1
                        /\ chunk' = 0
                        /\ message' = NoMessage
                        /\ UNCHANGED slept

\* One pass of the for loop over machines, up to the chunk loop of
\* send_telegram.
EvaluateMachine ==
    /\ pc = "machine"
    /\ UNCHANGED <<previous_alerted, engine_vars, rest_vars>>
    /\ UNCHANGED <<sensor_data_csv, CHECK_INTERVAL, configured, came_from, data, machines, posts>>
    /\ \E result \in {Evaluation[data].result[idx]} :
       \E class \in {Classify(result.alerts)} :
       \E msg \in {BuildMessage(machines[idx], Evaluation[data].machine_type_len[idx],
                                class, result.alerts)} :
           LET entry == [machine_id |-> machines[idx], alerts |-> result.alerts,
                         level |-> class.level, urgency |-> class.urgency]
           IN  IF "machine_type" \notin data.cols
               THEN /\ Propagate(Exception("KeyError", "machine", idx, 0))
                    /\ UNCHANGED <<evaluated, dispatched>>
               ELSE IF result.error # "none"
               THEN /\ Propagate(Exception(result.error, "machine", idx, 0))
                    /\ UNCHANGED <<evaluated, dispatched>>
               ELSE /\ evaluated' = Append(evaluated, entry)
                    /\ UNCHANGED last_exc
                    /\ IF class.level = "NORMAL"
                       THEN \* continue
                            /\ NextMachine(idx)
                            /\ UNCHANGED dispatched
                       ELSE \* send_telegram(message)
                            /\ dispatched' = Append(dispatched, msg)
                            /\ IF ~configured \/ Chunks(msg.length) = <<>>
                               THEN NextMachine(idx)
                               ELSE /\ pc' = "post"
                                    /\ chunk' = 1
                                    /\ message' = msg
                                    /\ UNCHANGED <<idx, slept>>

\* PostChunk with no try around requests.post: an exception of the post
\* leaves send_telegram and run_monitoring_cycle.
PostChunk_NoTry ==
    /\ pc = "post"
    /\ UNCHANGED <<previous_alerted, engine_vars, rest_vars>>
    /\ UNCHANGED <<sensor_data_csv, CHECK_INTERVAL, configured, came_from, data,
                   machines, evaluated, dispatched>>
    /\ \E outcome \in {"ok", "error"} :
        /\ posts' = Append(posts, [machine_id |-> message.machine_id,
                                   chunk |-> chunk, outcome |-> outcome])
        /\ IF outcome = "error"
           THEN Propagate(Exception("RequestException", "post", idx, chunk))
           ELSE /\ UNCHANGED last_exc
                /\ IF chunk < Len(Chunks(message.length))
                   THEN /\ chunk' = chunk + 1
                        /\ UNCHANGED <<pc, idx, message, slept>>
                   ELSE NextMachine(idx)

\* One pass of the chunk loop of send_telegram: requests.post returns or
\* raises, and an exception is printed and dropped.
PostChunk ==
    /\ pc = "post"
    /\ UNCHANGED <<previous_alerted, engine_vars, rest_vars>>
    /\ UNCHANGED <<sensor_data_csv, CHECK_INTERVAL, configured, came_from, data,
                   machines, evaluated, dispatched>>
    /\ \E outcome \in {"ok", "error"} :
        /\ posts' = Append(posts, [machine_id |-> message.machine_id,
                                   chunk |-> chunk, outcome |-> outcome])
        /\ last_exc' = IF outcome = "error"
                       THEN Exception("RequestException", "post", idx, chunk)
                       ELSE last_exc
    /\ IF chunk < Len(Chunks(message.length))
       THEN /\ chunk' = chunk + 1
            /\ UNCHANGED <<pc, idx, message, slept>>
       ELSE NextMachine(idx)

-----------------------------------------------------------------------------
(* The main loop *)

\* IntervalElapsed with the loop left after the sleep (one cycle only).
IntervalElapsed_RunOnce ==
    /\ pc = "sleep"
    /\ UNCHANGED <<previous_alerted, engine_vars, rest_vars>>
    /\ pc' = "exited"
    /\ came_from' = "interval"
    /\ UNCHANGED <<sensor_data_csv, CHECK_INTERVAL, configured, data, machines, idx, message,
                   chunk, evaluated, dispatched, posts, last_exc, slept>>

\* time.sleep(CHECK_INTERVAL) returns: the while loop starts the next cycle.
IntervalElapsed ==
    /\ pc = "sleep"
    /\ UNCHANGED <<previous_alerted, engine_vars, rest_vars>>
    /\ pc' = "start"
    /\ came_from' = "interval"
    /\ UNCHANGED <<sensor_data_csv, CHECK_INTERVAL, configured, data, machines, idx, message,
                   chunk, evaluated, dispatched, posts, last_exc, slept>>

\* BackoffElapsed of a monitor that clears the telemetry file before it
\* tries again.
BackoffElapsed_DeletesFile ==
    /\ pc = "backoff"
    /\ UNCHANGED <<previous_alerted, engine_vars, rest_vars>>
    /\ pc' = "start"
    /\ came_from' = "backoff"
    /\ sensor_data_csv' = MissingFile
    /\ UNCHANGED <<CHECK_INTERVAL, configured, data, machines, idx, message,
                   chunk, evaluated, dispatched, posts, last_exc, slept>>

\* time.sleep(60) of the except Exception clause returns.
BackoffElapsed ==
    /\ pc = "backoff"
    /\ UNCHANGED <<previous_alerted, engine_vars, rest_vars>>
    /\ pc' = "start"
    /\ came_from' = "backoff"
    /\ UNCHANGED <<sensor_data_csv, CHECK_INTERVAL, configured, data, machines, idx, message,
                   chunk, evaluated, dispatched, posts, last_exc, slept>>

\* Where a KeyboardInterrupt raised at position p ends: inside the try block
\* the except KeyboardInterrupt clause prints "Monitor stopped" and breaks;
\* inside the except Exception clause no clause of the same try catches it.
InterruptTarget(p) == IF p = "backoff" THEN "crashed" ELSE "stopped"

\* Ctrl+C
KeyboardInterrupt ==
    /\ pc \in {"start", "machine", "post", "sleep", "backoff"}
    /\ UNCHANGED <<previous_alerted, engine_vars, rest_vars>>
    /\ pc' = InterruptTarget(pc)
    /\ UNCHANGED <<sensor_data_csv, CHECK_INTERVAL, configured, came_from, data, machines,
                   idx,                   message, chunk, evaluated, dispatched, posts, last_exc, slept>>

\* The producer of sensor_data.csv removes or rewrites the file.
ProducerWrites ==
    /\ pc \notin {"stopped", "crashed"}
    /\ UNCHANGED <<previous_alerted, engine_vars, rest_vars>>
    /\ \E f \in Rewrites :
        /\ f # sensor_data_csv
        /\ sensor_data_csv' = f
    /\ UNCHANGED <<CHECK_INTERVAL, configured, pc, came_from, data, machines, idx,
                   message,
                   chunk, evaluated, dispatched, posts, last_exc, slept>>

\* The simulator has not been started: its file does not exist.
SimulatorIdle == sensor_data_live_csv = [status |-> "missing", readings |-> 0]

\* No analysis of the report generator.
NoAnalysis == [kind |-> "none"]

\* The report generator has not been started.
ReportIdle ==
    /\ report_pc = "idle"
    /\ report_data = NoData
    /\ stats = NoData
    /\ analysis = NoAnalysis
    /\ analysis_report_txt = NoAnalysis
    /\ alert_posts = <<>>

\* No button of the AI Analysis page has been pressed.
NoClick == [button |-> "none"]

\* The dashboard has not been opened: st.session_state is empty.
DashboardIdle ==
    /\ session_state = [keys |-> {}, analyses |-> {}]
    /\ now = 0
    /\ last_click = NoClick

Init ==
    /\ sensor_data_csv \in Files
    /\ CHECK_INTERVAL \in {TestingInterval, ProductionInterval}
    /\ configured \in BOOLEAN
    /\ pc = "start"
    /\ came_from = "boot"
    /\ data = NoData
    /\ machines = <<>>
    /\ idx = 0
    /\ message = NoMessage
    /\ chunk = 0
    /\ evaluated = <<>>
    /\ dispatched = <<>>
    /\ posts = <<>>
    /\ last_exc = NoException
    /\ slept = 0
    /\ previous_alerted = {}
    /\ subject = NoSubject
    /\ retval = NotCalled
    /\ SimulatorIdle
    /\ GROQ_API_KEY = FALSE
    /\ ReportIdle
    /\ DashboardIdle

Next ==
    \/ ReadTelemetry
    \/ EvaluateMachine
    \/ PostChunk
    \/ IntervalElapsed
    \/ BackoffElapsed
    \/ KeyboardInterrupt
    \/ ProducerWrites

Spec == Init /\ [][Next]_vars

\* The interpreter keeps running the main thread, every sleep ends and every
\* requests.post returns or raises; the stop signal and the producer are
\* under no obligation.
Fairness ==
    /\ WF_vars(ReadTelemetry)
    /\ WF_vars(EvaluateMachine)
    /\ WF_vars(PostChunk)
    /\ WF_vars(IntervalElapsed)
    /\ WF_vars(BackoffElapsed)

LiveSpec == Init /\ [][Next]_vars /\ Fairness

-----------------------------------------------------------------------------
(* The scoring functions of the report generator (analyzer.py), the        *)
(* dashboards (dashboard.py, app.py) and the e-mail report                 *)
(* (email_report.py): what they are applied to                             *)

\* readings of a series handed to a scoring function
MaxReadings == 24

\* current = data.tail(5) of calculate_basic_stats
ReportCurrentSize == 5
\* head(max(5, len(machine_data) // 4))
MinBaseline == 5
BaselineDivisor == 4
\* tail(max(3, len(machine_data) // 6))
MinCurrent == 3
CurrentDivisor == 6
\* 100 - (change * 500)
FullScore == 100
PenaltyFactor == 500
\* health < 40, health < 70
CriticalBelow == 40
WarningBelow == 70
\* abs(z) > 2
AnomalyThreshold == 2

\* How the first ten readings of an unsteady channel lie around its level:
\* the first five have sample standard deviation 5, the ten together 4.
Wobble == <<5, -5, 5, -5, 0, 5, -3, -3, 1, 0>>

Shape(l, w, j) == [level |-> l, wobble |-> w, jump |-> j, amplitude |-> 1]

\* A channel around 0 whose readings lie a times as far from it.
Swing(a, j) == [level |-> 0, wobble |-> TRUE, jump |-> j, amplitude |-> a]

\* A channel at its level all along.
Steady == Shape(100, TRUE, 0)

\* The channel shapes a series is built from: a level (100, or 0 for a
\* channel that reads nothing), readings on the level or around it, and the
\* step the most recent readings took.
Shapes ==
    {Shape(100, FALSE, j) : j \in {0, 40}}
        \cup {Shape(100, TRUE, j) : j \in {0, 4, 8, 9, 10, 11, 20, 40, -8, -9, -10, -11, -40}}
        \cup {Shape(0, FALSE, j) : j \in {0, 5}}
        \cup {Shape(0, TRUE, j) : j \in {0, 20}}
        \cup {Swing(11, j) : j \in {89, 111, 147}}

\* What the three channels beside the one in focus do.
Backgrounds == {<<Steady, Steady, Steady>>,
                <<Shape(100, TRUE, 10), Steady, Shape(100, TRUE, -10)>>,
                <<Shape(100, TRUE, 40), Shape(100, TRUE, 10), Steady>>}

\* A machine series: n readings, the last `changed` of them off the level;
\* channel `focus` has shape `shape`, the others those of `rest` in order.
SeriesSubjects ==
    [kind : {"series"}, n : 1..MaxReadings, changed : {MinCurrent, ReportCurrentSize},
     focus : 1..Len(Channels), shape : Shapes, rest : Backgrounds]

\* A health score, in tenths (round(..., 1) returns one decimal).
ScoreSubjects == [kind : {"score"}, tenths : 0..(10 * FullScore)]

\* The shape of channel k of series s.
ShapeOf(s, k) ==
    IF k = s.focus THEN s.shape
    ELSE s.rest[IF k < s.focus THEN k ELSE k - 1]

\* Reading i of channel k of series s.
Signal(s, k, i) ==
    LET h == ShapeOf(s, k)
    IN  IF i > s.n - s.changed /\ i > MinBaseline THEN h.level + h.jump
        ELSE h.level + (IF h.wobble /\ i <= Len(Wobble) THEN h.amplitude * Wobble[i]
                                                            ELSE 0)

\* The DataFrame of series s: one row per reading.
Readings(s) ==
    [i \in 1..s.n |->
        [timestamp |-> i,
         machine_id |-> MachineIds[1],
         machine_type_len |-> 8,
         vibration_g |-> Signal(s, 1, i),
         temperature_c |-> Signal(s, 2, i),
         pressure_bar |-> Signal(s, 3, i),
         power_kw |-> Signal(s, 4, i),
         nonnum |-> {}]]

-----------------------------------------------------------------------------
(* The scoring functions *)

\* ProportionalBaseline with the fixed window of the monitor, head(10).
ProportionalBaseline_Fixed(rows) == HeadRows(rows, BaselineSize)

\* machine_data.head(max(5, len(machine_data) // 4))
ProportionalBaseline(rows) ==
    HeadRows(rows, Max(MinBaseline, Len(rows) \div BaselineDivisor))

\* ProportionalCurrent with the fixed window of the monitor, tail(3).
ProportionalCurrent_Fixed(rows) == TailRows(rows, CurrentSize)

\* machine_data.tail(max(3, len(machine_data) // 6))
ProportionalCurrent(rows) ==
    TailRows(rows, Max(MinCurrent, Len(rows) \div CurrentDivisor))

\* IsAnomaly with the test written abs(z_score) >= 2.
IsAnomaly_NonStrict(z) == z.num >= AnomalyThreshold * AnomalyThreshold * z.den

\* abs(z_score) > 2
IsAnomaly(z) == z.num > AnomalyThreshold * AnomalyThreshold * z.den

\* calculate_basic_stats(data): the stats dict it returns and the status it
\* prints per column, with the two windows it took.  z_score is the local
\* variable, z_score_rounded the value stored under 'z_score'.
calculate_basic_stats(rows) ==
    LET baseline == HeadRows(rows, BaselineSize)
        current == TailRows(rows, ReportCurrentSize)
    IN  [baseline |-> Column(baseline, "timestamp"),
         current |-> Column(current, "timestamp"),
         stats |->
            [col \in ChannelSet |->
                LET b == Column(baseline, col)
                    c == Column(current, col)
                    z_score == ZScore(b, c)
                IN  [baseline_avg |-> Round(Mean(b), 2),
                     current_avg |-> Round(Mean(c), 2),
                     z_score |-> z_score,
                     z_score_rounded |-> RoundZ(z_score, 2),
                     change_percent |-> Round(ChangePercent(b, c), 2),
                     status |-> IF IsAnomaly(z_score) THEN "ANOMALY" ELSE "Normal"]]]

\* The label of each parameter in the data summary analyze_with_ai builds
\* for the AI service:
\* '(ANOMALY - way beyond normal!)' if abs(values['z_score']) > 2 else '(Normal)'
data_summary(st) ==
    [col \in DOMAIN st |->
        IF Abs(st[col].z_score_rounded.units) > AnomalyThreshold * 100
        THEN "ANOMALY" ELSE "Normal"]

\* change_pct = ((c_mean - b_mean) / b_mean) * 100 if b_mean > 0 else 0
GuardedChangePercent(b, c) ==
    IF Sum(b) > 0 THEN ChangePercent(b, c) ELSE Finite(0, 1)

\* get_z_scores(machine_data)
get_z_scores(rows) ==
    LET baseline == ProportionalBaseline(rows)
        current == ProportionalCurrent(rows)
    IN  [baseline |-> Column(baseline, "timestamp"),
         current |-> Column(current, "timestamp"),
         z_scores |->
            [col \in ChannelSet |->
                LET b == Column(baseline, col)
                    c == Column(current, col)
                    z == ZScore(b, c)
                IN  [baseline |-> Round(Mean(b), 2),
                     current |-> Round(Mean(c), 2),
                     z_score |-> z,
                     z_score_rounded |-> RoundZ(z, 1),
                     change_pct |-> Round(GuardedChangePercent(b, c), 1),
                     is_anomaly |-> IsAnomaly(z)]]]

\* AtLeastZero with the max left out.
AtLeastZero_Unclamped(x) == x

\* max(0, x)
AtLeastZero(x) == IF x.num < 0 THEN Finite(0, 1) ELSE x

\* SubScore with the change taken with its sign: (current - baseline) / baseline.
SubScore_Signed(b, c) ==
    IF Sum(b) > 0
    THEN LET change == Quotient(MeanDiffNum(b, c), Sum(b) * Len(c))
         IN  AtLeastZero(Quotient(FullScore * change.den - PenaltyFactor * change.num,
                                  change.den))
    ELSE Finite(FullScore, 1)

\* The score of one column in dashboard.calculate_health_score.
SubScore(b, c) ==
    IF Sum(b) > 0
    THEN LET change == Quotient(Abs(MeanDiffNum(b, c)), Sum(b) * Len(c))
         IN  AtLeastZero(Quotient(FullScore * change.den - PenaltyFactor * change.num,
                                  change.den))
    ELSE Finite(FullScore, 1)

\* EmailSubScore scoring a column whose baseline mean is 0 as 0, not 100.
EmailSubScore_ZeroWhenNoBaseline(b, c) ==
    IF Sum(b) > 0
    THEN LET change == Quotient(Abs(MeanDiffNum(b, c)), Sum(b) * Len(c))
         IN  AtLeastZero(Quotient(FullScore * change.den - PenaltyFactor * change.num,
                                  change.den))
    ELSE Finite(0, 1)

\* The score of one column in email_report.calculate_health.
EmailSubScore(b, c) ==
    IF Sum(b) > 0
    THEN LET change == Quotient(Abs(MeanDiffNum(b, c)), Sum(b) * Len(c))
         IN  AtLeastZero(Quotient(FullScore * change.den - PenaltyFactor * change.num,
                                  change.den))
    ELSE Finite(FullScore, 1)

\* The score of one column in app.calculate_health_score:
\* change = abs(c - b) / b if b > 0 else 0, then max(0, 100 - change * 500).
AppSubScore(b, c) ==
    LET change == IF Sum(b) > 0
                  THEN Quotient(Abs(MeanDiffNum(b, c)), Sum(b) * Len(c))
                  ELSE Finite(0, 1)
    IN  AtLeastZero(Quotient(FullScore * change.den - PenaltyFactor * change.num,
                             change.den))

\* p + q
Plus(p, q) ==
    LET l == (p.den \div Gcd(p.den, q.den)) * q.den
    IN  Quotient(p.num * (l \div p.den) + q.num * (l \div q.den), l)

RECURSIVE SumOf(_)
\* sum(scores)
SumOf(scores) ==
    IF scores = <<>> THEN Finite(0, 1) ELSE Plus(Head(scores), SumOf(Tail(scores)))

\* Average taking the lowest score for the health score: round(min(scores), 1).
Average_Lowest(scores) ==
    Round(CHOOSE x \in {scores[k] : k \in 1..Len(scores)} :
              \A k \in 1..Len(scores) : x.num * scores[k].den <= scores[k].num * x.den, 1)

\* round(sum(scores) / len(scores), 1)
Average(scores) ==
    LET total == SumOf(scores)
    IN  Round(Quotient(total.num, total.den * Len(scores)), 1)

\* The columns in the order their scores are appended: the loop over the
\* three columns, then pressure_bar.
ScoreOrder == <<"vibration_g", "temperature_c", "power_kw", "pressure_bar">>

\* calculate_health_score(machine_data) of dashboard.py, with the scores list
\* and the two windows it took.
calculate_health_score(rows) ==
    LET baseline == ProportionalBaseline(rows)
        current == ProportionalCurrent(rows)
        scores == [k \in 1..Len(ScoreOrder) |->
                      SubScore(Column(baseline, ScoreOrder[k]),
                               Column(current, ScoreOrder[k]))]
    IN  [baseline |-> Column(baseline, "timestamp"),
         current |-> Column(current, "timestamp"),
         scores |-> scores,
         health |-> Average(scores).units]

\* calculate_health(machine_data) of email_report.py
calculate_health(rows) ==
    LET baseline == ProportionalBaseline(rows)
        current == ProportionalCurrent(rows)
        scores == [k \in 1..Len(ScoreOrder) |->
                      EmailSubScore(Column(baseline, ScoreOrder[k]),
                                    Column(current, ScoreOrder[k]))]
    IN  [baseline |-> Column(baseline, "timestamp"),
         current |-> Column(current, "timestamp"),
         scores |-> scores,
         health |-> Average(scores).units]

\* calculate_health_score(machine_data) of app.py
app_calculate_health_score(rows) ==
    LET baseline == ProportionalBaseline(rows)
        current == ProportionalCurrent(rows)
        scores == [k \in 1..Len(ScoreOrder) |->
                      AppSubScore(Column(baseline, ScoreOrder[k]),
                                  Column(current, ScoreOrder[k]))]
    IN  [baseline |-> Column(baseline, "timestamp"),
         current |-> Column(current, "timestamp"),
         scores |-> scores,
         health |-> Average(scores).units]

\* get_alert_level with the boundaries taken into the lower level:
\* health_score <= 40, health_score <= 70.
get_alert_level_Inclusive(health) ==
    IF health <= 10 * CriticalBelow THEN "CRITICAL"
    ELSE IF health <= 10 * WarningBelow THEN "WARNING"
    ELSE "NORMAL"

\* get_alert_level(health_score) of dashboard.py, health in tenths
get_alert_level(health) ==
    IF health < 10 * CriticalBelow THEN "CRITICAL"
    ELSE IF health < 10 * WarningBelow THEN "WARNING"
    ELSE "NORMAL"

\* get_status_emoji(health) of email_report.py, health in tenths
get_status_emoji(health) ==
    IF health < 10 * CriticalBelow THEN "CRITICAL"
    ELSE IF health < 10 * WarningBelow THEN "WARNING"
    ELSE "NORMAL"

\* get_alert_level(health) of app.py, health in tenths
app_get_alert_level(health) ==
    IF health < 10 * CriticalBelow THEN "CRITICAL"
    ELSE IF health < 10 * WarningBelow THEN "WARNING"
    ELSE "NORMAL"

-----------------------------------------------------------------------------
(* The scoring functions applied: one action per function, each a call on a *)
(* subject no function was applied to yet                                   *)

\* The windows check_machine takes.
MonitorWindows(rows) ==
    [baseline |-> Column(HeadRows(rows, BaselineSize), "timestamp"),
     current |-> Column(TailRows(rows, CurrentSize), "timestamp")]

\* check_machine(machine_data) of the scheduled monitor
CallCheckMachine ==
    /\ subject.kind = "series"
    /\ retval = NotCalled
    /\ \E rows \in {Readings(subject)} :
        retval' = [function |-> "check_machine",
                   value |-> check_machine(AllCols, rows),
                   windows |-> MonitorWindows(rows)]
    /\ UNCHANGED <<monitor_vars, subject, rest_vars>>

\* stats = calculate_basic_stats(data) of the report generator
CallCalculateBasicStats ==
    /\ subject.kind = "series"
    /\ retval = NotCalled
    /\ retval' = [function |-> "calculate_basic_stats",
                  value |-> calculate_basic_stats(Readings(subject))]
    /\ UNCHANGED <<monitor_vars, subject, rest_vars>>

\* analyze_with_ai(data, stats) of the report generator, with the stats
\* main hands it and a key at hand: the data summary it sends.
CallAnalyzeWithAI ==
    /\ subject.kind = "series"
    /\ retval = NotCalled
    /\ GROQ_API_KEY
    /\ \E st \in {calculate_basic_stats(Readings(subject))} :
        retval' = [function |-> "analyze_with_ai",
                   value |-> st,
                   data_summary |-> data_summary(st.stats)]
    /\ UNCHANGED <<monitor_vars, subject, rest_vars>>

\* z_scores = get_z_scores(machine_data) of the dashboard
CallGetZScores ==
    /\ subject.kind = "series"
    /\ retval = NotCalled
    /\ retval' = [function |-> "get_z_scores",
                  value |-> get_z_scores(Readings(subject))]
    /\ UNCHANGED <<monitor_vars, subject, rest_vars>>

\* health = calculate_health_score(machine_data);
\* level, icon, css_class = get_alert_level(health) of dashboard.py
CallCalculateHealthScore ==
    /\ subject.kind = "series"
    /\ retval = NotCalled
    /\ \E value \in {calculate_health_score(Readings(subject))} :
        retval' = [function |-> "calculate_health_score",
                   value |-> value,
                   level |-> get_alert_level(value.health)]
    /\ UNCHANGED <<monitor_vars, subject, rest_vars>>

\* health = calculate_health(m_data); _, status, _ = get_status_emoji(health)
CallCalculateHealth ==
    /\ subject.kind = "series"
    /\ retval = NotCalled
    /\ \E value \in {calculate_health(Readings(subject))} :
        retval' = [function |-> "calculate_health",
                   value |-> value,
                   level |-> get_status_emoji(value.health)]
    /\ UNCHANGED <<monitor_vars, subject, rest_vars>>

\* health = calculate_health_score(m_data);
\* level, icon, css = get_alert_level(health) of app.py
CallAppCalculateHealthScore ==
    /\ subject.kind = "series"
    /\ retval = NotCalled
    /\ \E value \in {app_calculate_health_score(Readings(subject))} :
        retval' = [function |-> "app.calculate_health_score",
                   value |-> value,
                   level |-> app_get_alert_level(value.health)]
    /\ UNCHANGED <<monitor_vars, subject, rest_vars>>

\* get_alert_level(health_score) of dashboard.py on a score of its own
CallGetAlertLevel ==
    /\ subject.kind = "score"
    /\ retval = NotCalled
    /\ retval' = [function |-> "get_alert_level",
                  level |-> get_alert_level(subject.tenths)]
    /\ UNCHANGED <<monitor_vars, subject, rest_vars>>

\* get_status_emoji(health) of email_report.py on a score of its own
CallGetStatusEmoji ==
    /\ subject.kind = "score"
    /\ retval = NotCalled
    /\ retval' = [function |-> "get_status_emoji",
                  level |-> get_status_emoji(subject.tenths)]
    /\ UNCHANGED <<monitor_vars, subject, rest_vars>>

\* get_alert_level(health) of app.py on a score of its own
CallAppGetAlertLevel ==
    /\ subject.kind = "score"
    /\ retval = NotCalled
    /\ retval' = [function |-> "app.get_alert_level",
                  level |-> app_get_alert_level(subject.tenths)]
    /\ UNCHANGED <<monitor_vars, subject, rest_vars>>

\* The lengths of the messages handed to a sender: none, and around each
\* multiple of max_len.
MessageLengths ==
    {0} \cup {k * max_len + d : k \in 0..(MaxChunks - 1),
                                d \in {1, 2, max_len \div 2, max_len - 1, max_len}}

\* A message, as the number of its characters.
MessageSubjects == [kind : {"message"}, length : MessageLengths]

\* The chunks of send_telegram_alert: the message itself up to max_length
\* characters, its slices of max_length characters otherwise.
AlertChunks(length) ==
    IF length <= max_len
    THEN <<[start |-> 0, stop |-> length]>>
    ELSE [i \in 1..((length + max_len - 1) \div max_len) |->
            [start |-> (i - 1) * max_len, stop |-> Min(length, i * max_len)]]

\* send_telegram(message) of the monitor: nothing without the two settings;
\* otherwise one requests.post per chunk, in order, whatever the posts before
\* it did.
CallSendTelegram ==
    /\ subject.kind = "message"
    /\ retval = NotCalled
    /\ \E chunks \in {IF configured THEN Chunks(subject.length) ELSE <<>>} :
       \E outcomes \in [1..Len(chunks) -> {"ok", "error"}] :
          retval' = [function |-> "send_telegram",
                     posted |-> chunks,
                     outcomes |-> outcomes,
                     value |-> "None"]
    /\ UNCHANGED <<monitor_vars, subject, rest_vars>>

\* send_telegram_alert(message) of the report generator: False without the
\* two settings; otherwise one requests.post per chunk, in order, and True
\* if every post was answered with status 200.
CallSendTelegramAlert ==
    /\ subject.kind = "message"
    /\ retval = NotCalled
    /\ \E chunks \in {IF configured THEN AlertChunks(subject.length) ELSE <<>>} :
       \E outcomes \in [1..Len(chunks) -> {"ok", "error"}] :
          retval' = [function |-> "send_telegram_alert",
                     posted |-> chunks,
                     outcomes |-> outcomes,
                     value |-> configured /\ \A i \in 1..Len(chunks) : outcomes[i] = "ok"]
    /\ UNCHANGED <<monitor_vars, subject, rest_vars>>

\* The monitor is not running; a series, a score or a message is at hand.
EngineInit ==
    /\ subject \in SeriesSubjects \cup ScoreSubjects \cup MessageSubjects
    /\ retval = NotCalled
    /\ sensor_data_csv = MissingFile
    /\ CHECK_INTERVAL = TestingInterval
    /\ configured \in (IF subject.kind = "message" THEN BOOLEAN ELSE {FALSE})
    /\ pc = "stopped"
    /\ came_from = "boot"
    /\ data = NoData
    /\ machines = <<>>
    /\ idx = 0
    /\ message = NoMessage
    /\ chunk = 0
    /\ evaluated = <<>>
    /\ dispatched = <<>>
    /\ posts = <<>>
    /\ last_exc = NoException
    /\ slept = 0
    /\ previous_alerted = {}
    /\ SimulatorIdle
    /\ GROQ_API_KEY = TRUE
    /\ ReportIdle
    /\ DashboardIdle

EngineNext ==
    \/ CallCheckMachine
    \/ CallCalculateBasicStats
    \/ CallAnalyzeWithAI
    \/ CallGetZScores
    \/ CallCalculateHealthScore
    \/ CallCalculateHealth
    \/ CallAppCalculateHealthScore
    \/ CallGetAlertLevel
    \/ CallGetStatusEmoji
    \/ CallAppGetAlertLevel
    \/ CallSendTelegram
    \/ CallSendTelegramAlert

EngineSpec == EngineInit /\ [][EngineNext]_vars

-----------------------------------------------------------------------------
(* Properties of the monitoring cycle *)

\* The DataFrames a cycle can hold.
Frames == {g \in Files \cup Rewrites : g.status = "ok"}

\* What is expected of a cycle over a DataFrame, from its rows alone: the
\* machine ids that occur in it and, per id, what check_machine returns for
\* the rows of that id and the row in which the id appears first.
Expected ==
    [f \in Frames |->
        LET rows == Rows(f)
            ids == {rows[i].machine_id : i \in 1..Len(rows)}
        IN  [ids |-> ids,
             returned |-> [m \in ids |-> check_machine(f.cols, RowsOf(rows, m))],
             first_row |->
                 [m \in ids |->
                     CHOOSE r \in 1..Len(rows) :
                         /\ rows[r].machine_id = m
                         /\ \A q \in 1..(r - 1) : rows[q].machine_id # m]]]

\* The machine ids that occur in a DataFrame.
PresentIds(d) == IF d \in Frames THEN Expected[d].ids ELSE {}

\* What check_machine returns for machine m of DataFrame d.
Returned(d, m) == Expected[d].returned[m]

\* The calls of send_telegram made for machine m in this cycle.
CallsFor(m) ==
    LET ForM(c) == c.machine_id = m
    IN  SelectSeq(dispatched, ForM)

\* run_monitoring_cycle went through its for loop and returned.
CycleCompleted == pc = "sleep" /\ data.status = "ok"

\* C1: in a cycle that ran to completion, send_telegram was called exactly
\* once for every machine of the telemetry for which check_machine returned
\* at least one alert, with a payload listing exactly the returned alerts,
\* and was not called for a machine for which it returned none.
C1_DispatchExactlyFlagged ==
    CycleCompleted =>
        \A m \in PresentIds(data) :
            LET returned == Returned(data, m).alerts
                calls == CallsFor(m)
            IN  IF returned # <<>>
                THEN /\ Len(calls) = 1
                     /\ calls[1].alerts = returned
                     /\ calls[1].level \in {"WARNING", "CRITICAL"}
                ELSE calls = <<>>

\* A completed cycle over two machines, one flagged on two channels and one not.
C1_Witness ==
    /\ CycleCompleted
    /\ Len(evaluated) = 2
    /\ Len(dispatched) = 1
    /\ Len(dispatched[1].alerts) = 2

\* C2: every machine the cycle evaluated has, with k the number of alerts
\* check_machine returned for it (0 <= k <= 4), level CRITICAL iff k >= 3,
\* WARNING iff 1 <= k <= 2 and NORMAL iff k = 0, and CRITICAL and WARNING
\* carry their urgency texts, in the log and in the dispatched message.
C2_AnomalyCountPolicy ==
    /\ \A i \in 1..Len(evaluated) :
        LET e == evaluated[i]
            k == Len(e.alerts)
        IN  /\ k \in 0..4
            /\ e.level \in {"CRITICAL", "WARNING", "NORMAL"}
            /\ e.level = "CRITICAL" <=> k >= 3
            /\ e.level = "WARNING" <=> (1 <= k /\ k <= 2)
            /\ e.level = "NORMAL" <=> k = 0
            /\ e.level = "CRITICAL" => e.urgency = "Immediate inspection required!"
            /\ e.level = "WARNING" => e.urgency = "Schedule maintenance within 24 hours."
    /\ \A i \in 1..Len(dispatched) :
        LET d == dispatched[i]
            k == Len(d.alerts)
        IN  /\ d.level = "CRITICAL" <=> k >= 3
            /\ d.level = "WARNING" <=> (1 <= k /\ k <= 2)
            /\ d.level = "CRITICAL" => d.urgency = "Immediate inspection required!"
            /\ d.level = "WARNING" => d.urgency = "Schedule maintenance within 24 hours."

\* A cycle that classified one machine with exactly 3 alerts and one with exactly 1.
C2_Witness ==
    /\ Len(evaluated) = 2
    /\ Len(evaluated[1].alerts) = 3 /\ evaluated[1].level = "CRITICAL"
    /\ Len(evaluated[2].alerts) = 1 /\ evaluated[2].level = "WARNING"

\* An exception was raised in this step, caught or not.
RaisedNow == last_exc' # last_exc /\ last_exc'.type # "none"

\* The exception raised in this step is one the cycle catches itself: the
\* FileNotFoundError of the read, or an exception of requests.post.
CaughtInCycle ==
    \/ last_exc'.type = "FileNotFoundError" /\ last_exc'.where = "read"
    \/ last_exc'.where = "post"

\* The main loop has ended.
Terminated == pc \in {"stopped", "crashed"}

\* C3 as claimed: whenever any exception is raised while a cycle is running,
\* the loop goes to its 60-second backoff.
C3_AnyRaiseBacksOff ==
    [][RaisedNow => (pc' = "backoff" /\ slept' = BackoffSeconds)]_vars

\* C3 as amended: an exception that leaves run_monitoring_cycle (any but the
\* FileNotFoundError of the read and the exceptions of requests.post) does
\* not end the loop: the loop sleeps the 60-second backoff; when that sleep
\* returns it is at the start of a cycle; and a cycle that starts re-reads
\* the file and begins at the first machine with an empty record.
C3_EscapedRaiseRestartsCycle ==
    [][/\ (RaisedNow /\ ~CaughtInCycle) => (pc' = "backoff" /\ slept' = BackoffSeconds)
       /\ (pc = "backoff" /\ pc' # "backoff") => (pc' = "start" \/ pc' = "crashed")
       /\ (pc = "backoff" /\ pc' = "start") => came_from' = "backoff"
       /\ (pc = "start" /\ pc' \notin {"start", "stopped"}) =>
             /\ evaluated' = <<>> /\ dispatched' = <<>> /\ posts' = <<>>
             /\ sensor_data_csv.status = "ok" => data' = sensor_data_csv
             /\ pc' = "machine" => (idx' = 1 /\ machines' = Machines(sensor_data_csv))
      ]_vars

\* After an exception and its backoff, a new cycle has re-read the file and
\* is at its first machine.
C3_Witness ==
    /\ came_from = "backoff"
    /\ pc = "machine"
    /\ idx = 1
    /\ evaluated = <<>>
    /\ data = sensor_data_csv
    /\ Len(machines) = 2

\* C4: a stop signal ends the loop through the "Monitor stopped" branch,
\* wherever it arrives, with no uncaught exception, and the step that ends
\* the loop starts no cycle and dispatches nothing.
C4_StopExitsCleanly ==
    [][(~Terminated /\ Terminated') =>
          /\ pc' = "stopped"
          /\ UNCHANGED <<evaluated, dispatched, posts>>]_vars

\* Machine m of the DataFrame d cannot be evaluated: its pass of the for
\* loop raises.
EvaluationRaises(d, m) ==
    "machine_type" \notin d.cols \/ Returned(d, m).error # "none"

\* The cycle has ended, by returning or by an exception.
CycleEnded == pc \in {"sleep", "backoff"} /\ data.status = "ok" /\ machines # <<>>

\* C5: when a cycle has ended, every machine whose own evaluation raises
\* nothing has been evaluated, and dispatched if flagged, whatever happened
\* at the other machines.
C5_PerMachineIsolation ==
    CycleEnded =>
        \A m \in PresentIds(data) :
            ~EvaluationRaises(data, m) =>
                /\ \E i \in 1..Len(evaluated) : evaluated[i].machine_id = m
                /\ Returned(data, m).alerts # <<>> => Len(CallsFor(m)) = 1

\* C6 as claimed: a missing sensor_data.csv takes the loop to its error
\* branch, the 60-second backoff, with nothing evaluated or dispatched.
C6_MissingFileBacksOff ==
    (last_exc.type = "FileNotFoundError" /\ pc \in {"sleep", "backoff"}) =>
        /\ pc = "backoff"
        /\ slept = BackoffSeconds
        /\ evaluated = <<>>
        /\ dispatched = <<>>

\* C6 as amended: a missing sensor_data.csv is caught inside
\* run_monitoring_cycle; nothing is evaluated, dispatched or posted, the loop
\* does not end by an exception, and the next cycle starts after the
\* ordinary sleep of CHECK_INTERVAL seconds.
C6_MissingFileSkipsCycle ==
    last_exc.type = "FileNotFoundError" =>
        /\ pc \in {"sleep", "start", "stopped"}
        /\ slept = CHECK_INTERVAL
        /\ pc = "start" => came_from = "interval"
        /\ evaluated = <<>>
        /\ dispatched = <<>>
        /\ posts = <<>>

\* The cycle after a missing file is about to start, after a sleep of
\* CHECK_INTERVAL = 7200 seconds.
C6_Witness ==
    /\ last_exc.type = "FileNotFoundError"
    /\ pc = "start"
    /\ came_from = "interval"
    /\ CHECK_INTERVAL = ProductionInterval
    /\ slept = ProductionInterval

\* C7: an alert is raised for a channel only in its configured direction:
\* z-score above +2.0 for a channel of direction 'up', below -2.0 for
\* pressure_bar, of direction 'down'.
C7_DirectionRespected ==
    \A i \in 1..Len(evaluated) :
        \A j \in 1..Len(evaluated[i].alerts) :
            LET a == evaluated[i].alerts[j]
            IN  IF checks[a.column].direction = "down"
                THEN a.z_sign < 0
                ELSE a.z_sign > 0

\* Every machine of the telemetry has been evaluated in the cycle that
\* just returned, and the loop sleeps CHECK_INTERVAL seconds.
CompletedAll ==
    /\ pc = "sleep"
    /\ slept = CHECK_INTERVAL
    /\ data.status = "ok" =>
          \A m \in PresentIds(data) :
              \E i \in 1..Len(evaluated) : evaluated[i].machine_id = m

\* C8: a cycle that returns has evaluated every machine of the telemetry
\* and is followed by a sleep of CHECK_INTERVAL seconds, which only the next
\* cycle or a stop signal ends; and unless a stop signal ends the loop or
\* cycles keep ending in an exception, cycles are started again and again,
\* and again and again a cycle returns with every machine evaluated.
C8_LoopLiveness ==
    /\ [](pc = "sleep" => CompletedAll)
    /\ [][(pc = "sleep" /\ pc' # "sleep") => pc' \in {"start", "stopped"}]_vars
    /\ \/ <>Terminated
       \/ []<>(pc = "backoff")
       \/ ([]<>(pc = "start") /\ []<>CompletedAll)

\* A cycle entered from the inter-cycle sleep has evaluated both machines
\* and returned.
C8_Witness ==
    /\ came_from = "interval"
    /\ CompletedAll
    /\ data.status = "ok"
    /\ Len(evaluated) = 2

\* The posts of chunk c of the message for machine m in this cycle.
PostsOf(m, c) ==
    LET Same(q) == q.machine_id = m /\ q.chunk = c
    IN  SelectSeq(posts, Same)

\* C9: a failed post is never fatal.  A step in which requests.post raises
\* stays inside the cycle; when send_telegram has returned for a machine,
\* every chunk of its message was attempted if the sink is configured and
\* none if it is not; no chunk is posted more than twice in a cycle; and
\* the step that leaves the chunk loop goes on to the next machine or ends
\* the cycle normally.
C9_NotificationFailureNotFatal ==
    /\ [](\A i \in 1..Len(dispatched) :
            LET d == dispatched[i]
                sending == pc = "post" /\ i = Len(dispatched)
            IN  \A c \in 1..Len(Chunks(d.length)) :
                    /\ Len(PostsOf(d.machine_id, c)) <= 2
                    /\ (configured /\ (~sending \/ c < chunk) /\ ~Terminated)
                          => Len(PostsOf(d.machine_id, c)) >= 1
                    /\ ~configured => PostsOf(d.machine_id, c) = <<>>)
    /\ [][/\ (RaisedNow /\ last_exc'.where = "post") => pc' \in {"post", "machine", "sleep"}
          /\ (pc = "post" /\ pc' \notin {"post", "stopped"}) =>
                \/ pc' = "machine" /\ idx' = idx + 1
                \/ pc' = "sleep" /\ idx = Len(machines)
          /\ (pc = "machine" /\ ~configured /\ Len(dispatched') > Len(dispatched)) =>
                \/ pc' = "machine" /\ idx' = idx + 1
                \/ pc' = "sleep" /\ idx = Len(machines)
         ]_vars

\* The post of the first chunk of the first machine's message raised, its
\* second chunk was still posted, and the cycle is at the second machine.
C9_Witness ==
    /\ configured
    /\ pc = "machine"
    /\ idx = 2
    /\ Len(posts) = 2
    /\ posts[1].chunk = 1 /\ posts[1].outcome = "error"
    /\ posts[2].chunk = 2 /\ posts[2].machine_id = posts[1].machine_id

\* The DataFrame lacks one of the four channels.
LacksChannel(d) == d.status = "ok" /\ ~(ChannelSet \subseteq d.cols)

\* C10: telemetry that lacks a channel is rejected before any cycle works
\* on it: it never raises an error in the middle of a cycle and is never
\* retried after the backoff.
C10_ConfigErrorFailsFast ==
    LacksChannel(data) => (pc # "backoff" /\ came_from # "backoff")

\* C18: the level of a machine and the decision to dispatch rest on the
\* telemetry read in the same cycle alone: every machine a cycle evaluated
\* carries the alerts check_machine returns for its rows in that cycle's
\* DataFrame; a machine alerted in the previous cycle that has no alert now
\* is NORMAL and has no send_telegram call in this cycle, and one that has
\* alerts again is not NORMAL and has exactly one call again.
C18_NoHysteresis ==
    \A i \in 1..Len(evaluated) :
        LET e == evaluated[i]
            alerted_before == e.machine_id \in previous_alerted
        IN  /\ e.alerts = Returned(data, e.machine_id).alerts
            /\ e.level = "NORMAL" <=> e.alerts = <<>>
            /\ Len(CallsFor(e.machine_id)) = IF e.alerts = <<>> THEN 0 ELSE 1
            /\ alerted_before /\ e.alerts = <<>>
                => e.level = "NORMAL" /\ CallsFor(e.machine_id) = <<>>
            /\ alerted_before /\ e.alerts # <<>>
                => /\ e.level \in {"WARNING", "CRITICAL"}
                   /\ Len(CallsFor(e.machine_id)) = 1
                   /\ CallsFor(e.machine_id)[1].alerts = e.alerts

\* Two machines were alerted in the previous cycle; in this one the first
\* recovered and was not dispatched, the second is flagged and dispatched again.
C18_Witness ==
    /\ CycleCompleted
    /\ previous_alerted = {MachineIds[1], MachineIds[2]}
    /\ Len(evaluated) = 2
    /\ evaluated[1].level = "NORMAL"
    /\ evaluated[2].level # "NORMAL"
    /\ Len(dispatched) = 1
    /\ dispatched[1].machine_id = MachineIds[2]

\* The row of DataFrame d in which machine m appears first.
FirstRow(d, m) == Expected[d].first_row[m]

\* The machine ids of the entries of a log, in order.
IdsOf(log) == [i \in 1..Len(log) |-> log[i].machine_id]

\* C19: in every cycle the machines are evaluated one after another in the
\* order in which their machine_id first appears in the DataFrame, and what
\* a completed cycle evaluated and dispatched is a function of the DataFrame
\* alone: one entry per machine in that order with the alerts check_machine
\* returns for its rows, and one send_telegram call, in the same order and
\* with the same alerts, for each entry that has alerts.
C19_Reproducible ==
    /\ \A i \in 1..Len(evaluated) : evaluated[i].machine_id = machines[i]
    /\ pc \in {"machine", "post"} \/ CycleCompleted
        => /\ {machines[i] : i \in 1..Len(machines)} = PresentIds(data)
           /\ \A i, j \in 1..Len(machines) :
                 i < j => FirstRow(data, machines[i]) < FirstRow(data, machines[j])
    /\ CycleCompleted
        => /\ Len(evaluated) = Len(machines)
           /\ \A i \in 1..Len(evaluated) :
                 /\ evaluated[i].alerts = Returned(data, machines[i]).alerts
                 /\ evaluated[i].level = Classify(evaluated[i].alerts).level
           /\ LET Flagged(e) == e.alerts # <<>>
                   flagged == SelectSeq(evaluated, Flagged)
               IN  /\ IdsOf(dispatched) = IdsOf(flagged)
                   /\ \A k \in 1..Len(dispatched) :
                         /\ dispatched[k].alerts = flagged[k].alerts
                         /\ dispatched[k].level = flagged[k].level

\* A completed cycle over two flagged machines, dispatched in the order of
\* their first rows.
C19_Witness ==
    /\ CycleCompleted
    /\ Len(machines) = 2
    /\ FirstRow(data, machines[1]) < FirstRow(data, machines[2])
    /\ Len(dispatched) = 2
    /\ dispatched[1].machine_id = machines[1]
    /\ dispatched[2].machine_id = machines[2]
    /\ dispatched[1].alerts # dispatched[2].alerts

-----------------------------------------------------------------------------
(* Properties of the scoring functions *)

\* The rows of the series under evaluation.
SubjectRows == Readings(subject)

\* The values of column col at the timestamps of a window.
WindowValues(window, col) == [i \in 1..Len(window) |-> SubjectRows[window[i]][col]]

\* A window whose values of col are all the same: its standard deviation is 0.
ZeroStd(window, col) ==
    /\ Len(window) >= 2
    /\ \A i \in 1..Len(window) : SubjectRows[window[i]][col] = SubjectRows[window[1]][col]

\* The returned z-score z is 0.
IsZero(z) == z.sign = 0 /\ z.num = 0

\* check_machine returned an alert for column col.
Alerted(col) ==
    \E i \in 1..Len(retval.value.alerts) : retval.value.alerts[i].column = col

\* C11: whenever the baseline window of a channel has standard deviation 0,
\* calculate_basic_stats and get_z_scores return a z-score of 0 for it and do
\* not flag it, and check_machine returns no alert for it, whatever the
\* current window holds.
C11_ZeroStdGuard ==
    \A col \in ChannelSet :
        /\ retval.function = "calculate_basic_stats" /\ ZeroStd(retval.value.baseline, col)
            => /\ IsZero(retval.value.stats[col].z_score)
               /\ retval.value.stats[col].status = "Normal"
        /\ retval.function = "get_z_scores" /\ ZeroStd(retval.value.baseline, col)
            => /\ IsZero(retval.value.z_scores[col].z_score)
               /\ ~retval.value.z_scores[col].is_anomaly
        /\ retval.function = "check_machine" /\ ZeroStd(retval.windows.baseline, col)
            => ~Alerted(col)

\* A flat baseline followed by a current window far off it, evaluated by
\* the dashboard.
C11_Witness ==
    /\ retval.function = "get_z_scores"
    /\ ZeroStd(retval.value.baseline, "vibration_g")
    /\ Sum(WindowValues(retval.value.current, "vibration_g"))
           > Len(retval.value.current) * SubjectRows[1]["vibration_g"]
    /\ IsZero(retval.value.z_scores["vibration_g"].z_score)

\* A window whose values of col have mean 0.
ZeroMean(window, col) == Sum(WindowValues(window, col)) = 0

\* The returned change x is the number 0.
IsZeroChange(x) == x.kind = "finite" /\ x.units = 0

\* C12: whenever the baseline window of a channel has mean 0, the
\* change_percent that calculate_basic_stats, check_machine and get_z_scores
\* report for that channel is the number 0 (not inf, not nan).
C12_ZeroMeanGuard ==
    \A col \in ChannelSet :
        /\ retval.function = "calculate_basic_stats" /\ ZeroMean(retval.value.baseline, col)
            => IsZeroChange(retval.value.stats[col].change_percent)
        /\ retval.function = "get_z_scores" /\ ZeroMean(retval.value.baseline, col)
            => IsZeroChange(retval.value.z_scores[col].change_pct)
        /\ retval.function = "check_machine" /\ ZeroMean(retval.windows.baseline, col)
            => \A i \in 1..Len(retval.value.alerts) :
                  retval.value.alerts[i].column = col
                      => IsZeroChange(retval.value.alerts[i].change_percent)

\* |z| > 2 and |z| = 2 for a z-score carried as z^2 = num / den.
BeyondTwo(z) == z.num > 4 * z.den
ExactlyTwo(z) == z.num = 4 * z.den

\* The z-score of col over the windows check_machine took.
MonitorZ(col) ==
    ZScore(WindowValues(retval.windows.baseline, col),
           WindowValues(retval.windows.current, col))

\* C13: a channel is flagged exactly when |z| > 2: get_z_scores sets
\* is_anomaly, calculate_basic_stats prints ANOMALY and check_machine returns
\* an alert for the channel if and only if the absolute z-score exceeds 2, so
\* a z-score of exactly 2 or -2 is not flagged.
C13_StrictThreshold ==
    \A col \in ChannelSet :
        /\ retval.function = "get_z_scores"
            => (retval.value.z_scores[col].is_anomaly
                    <=> BeyondTwo(retval.value.z_scores[col].z_score))
        /\ retval.function = "calculate_basic_stats"
            => (retval.value.stats[col].status = "ANOMALY"
                    <=> BeyondTwo(retval.value.stats[col].z_score))
        /\ retval.function = "check_machine"
            => (Alerted(col) <=> BeyondTwo(MonitorZ(col)))

\* The dashboard evaluated a series whose vibration z-score is exactly 2 and
\* whose pressure z-score is exactly -2, and flagged neither.
C13_Witness ==
    /\ retval.function = "get_z_scores"
    /\ ExactlyTwo(retval.value.z_scores["vibration_g"].z_score)
    /\ retval.value.z_scores["vibration_g"].z_score.sign = 1
    /\ ~retval.value.z_scores["vibration_g"].is_anomaly
    /\ ExactlyTwo(retval.value.z_scores["pressure_bar"].z_score)
    /\ retval.value.z_scores["pressure_bar"].z_score.sign = -1
    /\ ~retval.value.z_scores["pressure_bar"].is_anomaly

\* C14: for every health score h in [0, 100], get_alert_level of dashboard.py
\* and of app.py and get_status_emoji return the same single level: CRITICAL
\* iff h < 40, WARNING iff 40 <= h < 70, NORMAL iff h >= 70.
C14_ScoreThresholdPolicy ==
    subject.kind = "score" /\ retval.function # "none"
        => /\ retval.level \in {"CRITICAL", "WARNING", "NORMAL"}
           /\ retval.level = "CRITICAL" <=> subject.tenths < 400
           /\ retval.level = "WARNING" <=> (400 <= subject.tenths /\ subject.tenths < 700)
           /\ retval.level = "NORMAL" <=> subject.tenths >= 700
           /\ get_alert_level(subject.tenths) = get_status_emoji(subject.tenths)
           /\ get_alert_level(subject.tenths) = app_get_alert_level(subject.tenths)

\* The dashboard classified a health score of exactly 40.0 as WARNING.
C14_Witness ==
    /\ subject.kind = "score"
    /\ subject.tenths = 400
    /\ retval.function = "get_alert_level"
    /\ retval.level = "WARNING"

\* The functions that return a health score.
HealthFunctions == {"calculate_health_score", "calculate_health", "app.calculate_health_score"}

\* The fraction x lies in [0, 100].
InScoreRange(x) == x.kind = "finite" /\ x.den > 0 /\ 0 <= x.num /\ x.num <= 100 * x.den

\* C15: for every non-empty series, the health score that
\* calculate_health_score (dashboard.py, app.py) and calculate_health return
\* lies in [0, 100], and so does each of the four channel scores it averages.
C15_ScoresInRange ==
    retval.function \in HealthFunctions
        => /\ 0 <= retval.value.health /\ retval.value.health <= 1000
           /\ Len(retval.value.scores) = 4
           /\ \A k \in 1..Len(retval.value.scores) : InScoreRange(retval.value.scores[k])

\* A series whose vibration moved by 40 % of its baseline mean, where
\* 100 - change * 500 is negative: the vibration score is 0.
C15_Witness ==
    /\ retval.function = "calculate_health_score"
    /\ subject.focus = 1
    /\ subject.shape = Shape(100, TRUE, 40)
    /\ subject.n > MinBaseline
    /\ retval.value.scores[1] = Finite(0, 1)

\* The scenario over a pair of windows: vibration with baseline mean 1.0 and
\* standard deviation 0.05 and current mean 1.4 (readings in hundredths), the
\* other channels with a current mean equal to their baseline mean.
VibrationScenario(baseline, current) ==
    LET b == WindowValues(baseline, "vibration_g")
        c == WindowValues(current, "vibration_g")
    IN  /\ Sum(b) = 100 * Len(b)
        /\ Len(b) * SumSq(b) - Sum(b) * Sum(b) = 25 * Len(b) * (Len(b) - 1)
        /\ Sum(c) = 140 * Len(c)
        /\ \A col \in ChannelSet \ {"vibration_g"} :
               MeanDiffNum(WindowValues(baseline, col), WindowValues(current, col)) = 0

\* C16: in the scenario, get_z_scores returns a vibration z-score of 8.0 and
\* flags vibration; calculate_health_score lowers only the vibration score
\* and the alert level taken from its health score is WARNING or CRITICAL.
C16_ScenarioAtLeastWarning ==
    /\ retval.function = "get_z_scores"
            /\ VibrationScenario(retval.value.baseline, retval.value.current)
        => /\ retval.value.z_scores["vibration_g"].z_score.sign = 1
           /\ retval.value.z_scores["vibration_g"].z_score.num
                  = 64 * retval.value.z_scores["vibration_g"].z_score.den
           /\ retval.value.z_scores["vibration_g"].is_anomaly
    /\ retval.function = "calculate_health_score"
            /\ VibrationScenario(retval.value.baseline, retval.value.current)
        => /\ retval.value.scores[1].num < 100 * retval.value.scores[1].den
           /\ \A k \in 2..Len(retval.value.scores) : retval.value.scores[k] = Finite(100, 1)
           /\ retval.level \in {"WARNING", "CRITICAL"}

\* The first k and the last m of the timestamps 1..n.
Prefix(n, k) == [i \in 1..Min(n, k) |-> i]
Suffix(n, m) == [i \in 1..Min(n, m) |-> n - Min(n, m) + i]

\* The windows the function applied last took.
WindowsTaken == IF retval.function = "check_machine" THEN retval.windows ELSE retval.value

\* C17: for a series of N >= 1 readings both windows are non-empty, the
\* baseline a prefix and the current a suffix of the series: the first
\* min(N, max(5, N div 4)) and the last min(N, max(3, N div 6)) readings in
\* the health-score and dashboard functions, the first min(N, 10) and the
\* last min(N, 3) in check_machine, the first min(N, 10) and the last
\* min(N, 5) in calculate_basic_stats.
C17_WindowSelector ==
    subject.kind = "series" /\ retval.function # "none"
        => /\ WindowsTaken.baseline # <<>>
           /\ WindowsTaken.current # <<>>
           /\ retval.function \in HealthFunctions \cup {"get_z_scores"}
                => /\ WindowsTaken.baseline = Prefix(subject.n, Max(5, subject.n \div 4))
                   /\ WindowsTaken.current = Suffix(subject.n, Max(3, subject.n \div 6))
           /\ retval.function = "check_machine"
                => /\ WindowsTaken.baseline = Prefix(subject.n, 10)
                   /\ WindowsTaken.current = Suffix(subject.n, 3)
           /\ retval.function = "calculate_basic_stats"
                => /\ WindowsTaken.baseline = Prefix(subject.n, 10)
                   /\ WindowsTaken.current = Suffix(subject.n, 5)

\* A series long enough for the proportional sizes to exceed their minimum:
\* 24 readings, a baseline of 6 and a current window of 4.
C17_Witness ==
    /\ retval.function = "calculate_health_score"
    /\ subject.n = 24
    /\ retval.value.baseline = <<1, 2, 3, 4, 5, 6>>
    /\ retval.value.current = <<21, 22, 23, 24>>

\* The series under evaluation with the channel in focus reshaped to h.
Reshaped(h) == [subject EXCEPT !.shape = h]

\* The column in focus and the place of its score in the scores list.
FocusColumn == Channels[subject.focus]
FocusScore == CHOOSE k \in 1..Len(ScoreOrder) : ScoreOrder[k] = FocusColumn

\* The sum of the baseline window and the numerator of current mean minus
\* baseline mean, for the column in focus of series s.
BaselineSum(s) == Sum(Column(ProportionalBaseline(Readings(s)), FocusColumn))
Departure(s) ==
    Abs(MeanDiffNum(Column(ProportionalBaseline(Readings(s)), FocusColumn),
                    Column(ProportionalCurrent(Readings(s)), FocusColumn)))

\* p <= q for two fractions with positive denominators
AtMost(p, q) == p.num * q.den <= q.num * p.den

\* C20: with the baseline mean b > 0 of one channel and the other three
\* channels held fixed, a series in which that channel's relative change
\* |c - b| / b is at least as large gets a channel score and a health score
\* from calculate_health_score that are no higher.
C20_Monotonicity ==
    retval.function = "calculate_health_score"
        => \A h \in Shapes :
              /\ BaselineSum(subject) > 0
              /\ BaselineSum(Reshaped(h)) = BaselineSum(subject)
              /\ Departure(Reshaped(h)) >= Departure(subject)
              => \E other \in {calculate_health_score(Readings(Reshaped(h)))} :
                    /\ AtMost(other.scores[FocusScore], retval.value.scores[FocusScore])
                    /\ other.health <= retval.value.health

\* A series whose pressure fell by 8 % of its baseline mean was scored and
\* the same series with a fall of 10 % gets a strictly lower pressure score
\* and health score.
C20_Witness ==
    /\ retval.function = "calculate_health_score"
    /\ subject.focus = 3
    /\ subject.shape = Shape(100, TRUE, -8)
    /\ BaselineSum(subject) > 0
    /\ BaselineSum(Reshaped(Shape(100, TRUE, -10))) = BaselineSum(subject)
    /\ Departure(Reshaped(Shape(100, TRUE, -10))) > Departure(subject)
    /\ calculate_health_score(Readings(Reshaped(Shape(100, TRUE, -10)))).health
           < retval.value.health
    /\ ~AtMost(retval.value.scores[FocusScore],
               calculate_health_score(Readings(Reshaped(Shape(100, TRUE, -10)))).scores[FocusScore])

-----------------------------------------------------------------------------
(* The telemetry file and the programs that read it *)

-----------------------------------------------------------------------------
(* The three health scores *)

\* Every reading of every scored channel of the subject is at least 0.
NonNegative ==
    \A i \in 1..Len(SubjectRows) : \A k \in 1..Len(ScoreOrder) :
        SubjectRows[i][ScoreOrder[k]] >= 0

\* The reference score of a channel with baseline values b and current
\* values c: max(0, 100 - 500 * |mean(c) - mean(b)| / mean(b)), the relative
\* change being 0 when mean(b) is 0; it is 0 from a relative change of 20 %.
ReferenceScore(b, c) ==
    IF Sum(b) = 0 THEN Finite(FullScore, 1)
    ELSE IF 5 * Abs(MeanDiffNum(b, c)) >= Sum(b) * Len(c) THEN Finite(0, 1)
    ELSE Quotient(FullScore * Sum(b) * Len(c) - PenaltyFactor * Abs(MeanDiffNum(b, c)),
                  Sum(b) * Len(c))

\* t tenths is the fraction x rounded to one decimal: |10 x - t| <= 1/2.
IsRounded(t, x) == 2 * Abs(10 * x.num - t * x.den) <= x.den

\* C22: on a series with no negative reading the three health scores
\* (dashboard.calculate_health_score, email_report.calculate_health,
\* app.calculate_health_score) are the same number, the mean of the four
\* reference scores rounded to one decimal, and a channel's score is 0
\* exactly when its relative change is 20 % or more.
C22_ThreeHealthScoresAgree ==
    retval.function \in HealthFunctions /\ NonNegative
        => \E rows \in {SubjectRows} :
           \E d \in {calculate_health_score(rows)} :
           \E e \in {calculate_health(rows)} :
           \E a \in {app_calculate_health_score(rows)} :
           \E ref \in {[k \in 1..Len(ScoreOrder) |->
                           ReferenceScore(WindowValues(d.baseline, ScoreOrder[k]),
                                          WindowValues(d.current, ScoreOrder[k]))]} :
           \E total \in {SumOf(ref)} :
              /\ retval.value.health = d.health
              /\ e.health = d.health
              /\ a.health = d.health
              /\ e.scores = d.scores
              /\ a.scores = d.scores
              /\ d.scores = ref
              /\ IsRounded(d.health, Quotient(total.num, total.den * Len(ScoreOrder)))
              /\ \A k \in 1..Len(ScoreOrder) :
                    \E b \in {WindowValues(d.baseline, ScoreOrder[k])} :
                    \E c \in {WindowValues(d.current, ScoreOrder[k])} :
                        e.scores[k].num = 0
                            <=> /\ Sum(b) > 0
                                /\ 5 * Abs(MeanDiffNum(b, c)) >= Sum(b) * Len(c)

\* email_report.calculate_health scored a series with no negative reading
\* in which one channel read 0 throughout its baseline (score 100), one
\* moved by 20 % or more (score 0) and one by less (a score in between).
C22_Witness ==
    /\ retval.function = "calculate_health"
    /\ NonNegative
    /\ \E k \in 1..Len(ScoreOrder) :
          /\ Sum(WindowValues(retval.value.baseline, ScoreOrder[k])) = 0
          /\ retval.value.scores[k] = Finite(FullScore, 1)
    /\ \E k \in 1..Len(ScoreOrder) : retval.value.scores[k].num = 0
    /\ \E k \in 1..Len(ScoreOrder) :
          /\ retval.value.scores[k].num > 0
          /\ retval.value.scores[k].num < FullScore * retval.value.scores[k].den
    /\ retval.value.health = calculate_health_score(SubjectRows).health

-----------------------------------------------------------------------------
(* A sink that does not answer *)

\* The scheduling of the monitor when the notification sink may stay silent:
\* requests.post of send_telegram is called with no timeout argument, so it
\* returns or raises only once the sink answers or the connection breaks,
\* and nothing obliges the chunk loop to take its next step.
SilentSinkFairness ==
    /\ WF_vars(ReadTelemetry)
    /\ WF_vars(EvaluateMachine)
    /\ WF_vars(IntervalElapsed)
    /\ WF_vars(BackoffElapsed)

SilentSinkSpec == Init /\ [][Next]_vars /\ SilentSinkFairness

\* C23: every cycle that has begun to post a message is over after a
\* bounded wait, whether or not the sink answers: the loop reaches its
\* inter-cycle sleep (or, the cycle failing, its back-off), unless a stop
\* signal ends it first.
C23_PostTimesOut ==
    [](pc = "post" => <>(pc \in {"sleep", "backoff"} \/ Terminated))

-----------------------------------------------------------------------------
(* Overlapping windows *)

\* Some reading is in both windows the function applied last took.
Overlap ==
    \E i \in 1..Len(WindowsTaken.baseline) : \E j \in 1..Len(WindowsTaken.current) :
        WindowsTaken.baseline[i] = WindowsTaken.current[j]

\* C24: the two windows of a series of N readings share a reading exactly
\* when N < 8 in the health-score and dashboard functions, when N < 13 in
\* check_machine and when N < 15 in calculate_basic_stats; check_machine
\* raises nothing on an overlapping pair, and every function returns for it
\* what it computes from the two windows as for any other pair.
C24_WindowOverlap ==
    subject.kind = "series" /\ retval.function # "none"
        => /\ retval.function \in HealthFunctions \cup {"get_z_scores"}
                => (Overlap <=> subject.n < 8)
           /\ retval.function = "check_machine"
                => /\ Overlap <=> subject.n < 13
                   /\ retval.value.error = "none"
                   /\ retval.value =
                         CheckColumns(AllCols,
                                      [i \in 1..Len(retval.windows.baseline) |->
                                          SubjectRows[retval.windows.baseline[i]]],
                                      [i \in 1..Len(retval.windows.current) |->
                                          SubjectRows[retval.windows.current[i]]], 1)
           /\ retval.function = "calculate_basic_stats"
                => /\ Overlap <=> subject.n < 15
                   /\ \A col \in ChannelSet :
                         retval.value.stats[col].z_score
                             = ZScore(WindowValues(retval.value.baseline, col),
                                      WindowValues(retval.value.current, col))
           /\ retval.function = "get_z_scores"
                => \A col \in ChannelSet :
                      retval.value.z_scores[col].z_score
                          = ZScore(WindowValues(retval.value.baseline, col),
                                   WindowValues(retval.value.current, col))
           /\ retval.function \in HealthFunctions
                => \A k \in 1..Len(ScoreOrder) :
                      retval.value.scores[k]
                          = SubScore(WindowValues(retval.value.baseline, ScoreOrder[k]),
                                     WindowValues(retval.value.current, ScoreOrder[k]))

\* dashboard.calculate_health_score scored a series of 7 readings, whose
\* fifth reading belongs to both windows, and the step of the last three
\* readings lowered the score.
C24_Witness ==
    /\ retval.function = "calculate_health_score"
    /\ subject.n = 7
    /\ retval.value.baseline = <<1, 2, 3, 4, 5>>
    /\ retval.value.current = <<5, 6, 7>>
    /\ Overlap
    /\ retval.value.health < 10 * FullScore

-----------------------------------------------------------------------------
(* The live sensor simulator (sensor_simulator.py) beside the monitor *)

\* main of the simulator finds no file of the name csv_file and creates it
\* with the header line.
SimulatorCreates ==
    /\ sensor_data_live_csv.status = "missing"
    /\ sensor_data_live_csv' = [status |-> "ok", readings |-> 0]
    /\ UNCHANGED <<monitor_vars, engine_vars, report_vars, dashboard_vars>>

\* One iteration of the simulator's loop: a reading of each machine is
\* generated and df.to_csv(csv_file, mode='a', ...) appends them.
SimulatorAppends ==
    /\ sensor_data_live_csv.status = "ok"
    /\ sensor_data_live_csv.readings < MaxIterations * SimulatedMachines
    /\ sensor_data_live_csv' =
          [sensor_data_live_csv EXCEPT !.readings = @ + SimulatedMachines]
    /\ UNCHANGED <<monitor_vars, engine_vars, report_vars, dashboard_vars>>

\* The monitor and the simulator are started side by side.
PlantInit ==
    /\ Init
    /\ sensor_data_csv \in {EmptyFile, CsvFile(AllCols, <<HealthyKind, DegradedKind>>)}

PlantNext ==
    \/ Next
    \/ SimulatorCreates
    \/ SimulatorAppends

PlantSpec == PlantInit /\ [][PlantNext]_vars

\* C25: each iteration of the simulator's loop appends its readings to
\* sensor_data.csv, the file run_monitoring_cycle reads, so that the next
\* cycle started after the append reads them.
C25_SimulatorFeedsMonitor ==
    [][SimulatorAppends => sensor_data_csv' # sensor_data_csv]_vars

-----------------------------------------------------------------------------
(* How many channels it takes *)

\* The number of channels the function applied last scored below 100.
Below ==
    Cardinality({k \in 1..Len(ScoreOrder) :
                    retval.value.scores[k].num < FullScore * retval.value.scores[k].den})

\* C26: under the score-threshold policy a series with at most one channel
\* scored below 100 has a health score of at least 75 and the level NORMAL;
\* the level is WARNING only with two or more channels below 100 and
\* CRITICAL only with three or more.
C26_ChannelsBelow ==
    retval.function \in HealthFunctions
        => /\ Below <= 1 => retval.value.health >= 750 /\ retval.level = "NORMAL"
           /\ retval.level = "WARNING" => Below >= 2
           /\ retval.level = "CRITICAL" => Below >= 3

\* email_report.calculate_health scored exactly three channels below 100
\* and the level is CRITICAL.
C26_Witness ==
    /\ retval.function = "calculate_health"
    /\ Below = 3
    /\ retval.level = "CRITICAL"
    /\ retval.value.health < 10 * CriticalBelow

-----------------------------------------------------------------------------
(* Chunking *)

\* The chunks the sender applied last posted, in the order of its posts.
Posted == retval.posted

\* C27: with the sink configured, send_telegram and send_telegram_alert post
\* a message of L > 0 characters as the least number n of chunks with
\* n * 4000 >= L (a single chunk for L <= 4000); each chunk is non-empty and
\* at most 4000 characters long, the first begins where the message begins,
\* each of the others where the one before it ends, and the last ends where
\* the message ends, so that the chunks put together in the order of their
\* posts are the message.
C27_Chunking ==
    /\ retval.function \in {"send_telegram", "send_telegram_alert"}
    /\ configured
    /\ subject.length > 0
    => /\ Len(Posted) * 4000 >= subject.length
       /\ (Len(Posted) - 1) * 4000 < subject.length
       /\ subject.length <= 4000 => Len(Posted) = 1
       /\ \A i \in 1..Len(Posted) :
             /\ Posted[i].stop > Posted[i].start
             /\ Posted[i].stop - Posted[i].start <= 4000
             /\ Posted[i].start = IF i = 1 THEN 0 ELSE Posted[i - 1].stop
       /\ Posted[Len(Posted)].stop = subject.length

\* send_telegram posted a message of 8001 characters in three chunks, the
\* last of one character.
C27_Witness ==
    /\ retval.function = "send_telegram"
    /\ configured
    /\ subject.length = 2 * max_len + 1
    /\ Len(Posted) = 3
    /\ Posted[3] = [start |-> 2 * max_len, stop |-> 2 * max_len + 1]

-----------------------------------------------------------------------------
(* The report generator: main of analyzer.py *)

\* What analyze_with_ai returns for "no analysis".
None == [kind |-> "None"]

\* An analysis text of the AI service, as its length.
Text(n) == [kind |-> "text", length |-> n]

\* The report file a run of the day before left behind.
OldReport == [kind |-> "old"]

\* The telemetry files main is started on.
ReportFiles ==
    {MissingFile, EmptyFile} \cup LackingFiles
        \cup {CsvFile(AllCols, <<k>>) : k \in {HealthyKind, DegradedKind}}

\* main of analyzer.py is started.
ReportInit ==
    /\ sensor_data_csv \in ReportFiles
    /\ configured \in BOOLEAN
    /\ GROQ_API_KEY \in BOOLEAN
    /\ analysis_report_txt \in {NoAnalysis, OldReport}
    /\ report_pc = "read"
    /\ report_data = NoData
    /\ stats = NoData
    /\ analysis = NoAnalysis
    /\ alert_posts = <<>>
    /\ CHECK_INTERVAL = TestingInterval
    /\ pc = "stopped"
    /\ came_from = "boot"
    /\ data = NoData
    /\ machines = <<>>
    /\ idx = 0
    /\ message = NoMessage
    /\ chunk = 0
    /\ evaluated = <<>>
    /\ dispatched = <<>>
    /\ posts = <<>>
    /\ last_exc = NoException
    /\ slept = 0
    /\ previous_alerted = {}
    /\ subject = NoSubject
    /\ retval = NotCalled
    /\ SimulatorIdle
    /\ DashboardIdle

\* data = read_sensor_data("sensor_data.csv"): pd.read_csv and the prints of
\* the machine ids and of the first and last timestamp; an exception of any
\* of them leaves main, which catches nothing here.
ReadSensorData ==
    /\ report_pc = "read"
    /\ IF /\ sensor_data_csv.status = "ok"
          /\ {"machine_id", "timestamp"} \subseteq sensor_data_csv.cols
          /\ sensor_data_csv.fleet # <<>>
       THEN /\ report_data' = sensor_data_csv
            /\ report_pc' = "stats"
       ELSE /\ report_pc' = "crashed"
            /\ UNCHANGED report_data
    /\ UNCHANGED <<GROQ_API_KEY, stats, analysis, analysis_report_txt, alert_posts>>
    /\ UNCHANGED <<monitor_vars, engine_vars, simulator_vars, dashboard_vars>>

\* stats = calculate_basic_stats(data); a missing column is a KeyError that
\* leaves main.
CalculateBasicStats ==
    /\ report_pc = "stats"
    /\ IF ChannelSet \subseteq report_data.cols
       THEN /\ stats' = calculate_basic_stats(Rows(report_data)).stats
            /\ report_pc' = "analyze"
       ELSE /\ report_pc' = "crashed"
            /\ UNCHANGED stats
    /\ UNCHANGED <<GROQ_API_KEY, report_data, analysis, analysis_report_txt, alert_posts>>
    /\ UNCHANGED <<monitor_vars, engine_vars, simulator_vars, dashboard_vars>>

\* AfterAnalysis going on to save_report whatever analyze_with_ai returned.
AfterAnalysis_SavesAnyway(a) == "save"

\* if analysis is None: ... return
AfterAnalysis(a) == IF a = None THEN "returned" ELSE "save"

\* The try block of main around analysis = analyze_with_ai(data, stats):
\* without GROQ_API_KEY the function returns None; with it, it builds the
\* data summary (a KeyError without the machine_type column) and calls the
\* AI service, which answers with a text, answers with no content, or
\* raises.  The except clause prints a hint and returns.
AnalyzeWithAI ==
    /\ report_pc = "analyze"
    /\ IF ~GROQ_API_KEY
       THEN /\ analysis' = None
            /\ report_pc' = AfterAnalysis(None)
       ELSE IF "machine_type" \notin report_data.cols
       THEN /\ report_pc' = "returned"
            /\ UNCHANGED analysis
       ELSE \/ \E a \in {None, Text(max_len \div 2), Text(max_len)} :
                /\ analysis' = a
                /\ report_pc' = AfterAnalysis(a)
            \/ /\ report_pc' = "returned"
               /\ UNCHANGED analysis
    /\ UNCHANGED <<GROQ_API_KEY, report_data, stats, analysis_report_txt, alert_posts>>
    /\ UNCHANGED <<monitor_vars, engine_vars, simulator_vars, dashboard_vars>>

\* save_report(analysis, stats): analysis_report.txt is opened with 'w' and
\* the analysis and the statistics are written to it.
SaveReport ==
    /\ report_pc = "save"
    /\ analysis_report_txt' = [kind |-> "report", analysis |-> analysis, stats |-> stats]
    /\ report_pc' = "alert"
    /\ UNCHANGED <<GROQ_API_KEY, report_data, stats, analysis, alert_posts>>
    /\ UNCHANGED <<monitor_vars, engine_vars, simulator_vars, dashboard_vars>>

\* send_telegram_alert(alert_message), then the closing prints of main.
SendTelegramAlert ==
    /\ report_pc = "alert"
    /\ \E chunks \in {IF configured THEN AlertChunks(AlertHeaderLen + analysis.length)
                                     ELSE <<>>} :
       \E outcomes \in [1..Len(chunks) -> {"ok", "error"}] :
          alert_posts' = [i \in 1..Len(chunks) |->
                             [chunk |-> chunks[i], outcome |-> outcomes[i]]]
    /\ report_pc' = "done"
    /\ UNCHANGED <<GROQ_API_KEY, report_data, stats, analysis, analysis_report_txt>>
    /\ UNCHANGED <<monitor_vars, engine_vars, simulator_vars, dashboard_vars>>

ReportNext ==
    \/ ReadSensorData
    \/ CalculateBasicStats
    \/ AnalyzeWithAI
    \/ SaveReport
    \/ SendTelegramAlert

ReportSpec == ReportInit /\ [][ReportNext]_vars

\* C28: in main of the report generator save_report and send_telegram_alert
\* are reached only with an analysis that analyze_with_ai returned, not
\* None; the report is written before the alert is sent; and when
\* analyze_with_ai returns None or raises, main returns with
\* analysis_report.txt as it was and nothing posted.
C28_ReportOrder ==
    /\ [](report_pc \in {"save", "alert", "done"} => analysis.kind = "text")
    /\ [](report_pc \in {"alert", "done"} \/ alert_posts # <<>>
            => /\ analysis_report_txt.kind = "report"
               /\ analysis_report_txt.analysis = analysis)
    /\ [](report_pc = "returned"
            => /\ analysis \in {NoAnalysis, None}
               /\ analysis_report_txt \in {NoAnalysis, OldReport}
               /\ alert_posts = <<>>)
    /\ [][analysis_report_txt' # analysis_report_txt => report_pc = "save"]_vars
    /\ [][alert_posts' # alert_posts => report_pc = "alert"]_vars

\* main has saved the report of a long analysis over the one of the day
\* before and then posted the alert in two chunks.
C28_Witness ==
    /\ report_pc = "done"
    /\ analysis = Text(max_len)
    /\ analysis_report_txt.kind = "report"
    /\ analysis_report_txt.analysis = analysis
    /\ Len(alert_posts) = 2

-----------------------------------------------------------------------------
(* The AI Analysis page of the dashboard *)

\* The texts the AI service may answer with.
Answers == {"replace the bearing", "no action needed"}

\* The dashboard is opened on the telemetry of two machines.
DashboardInit ==
    /\ sensor_data_csv = CsvFile(AllCols, <<HealthyKind, DegradedKind>>)
    /\ GROQ_API_KEY \in BOOLEAN
    /\ session_state \in {[keys |-> {}, analyses |-> {}],
                          [keys |-> {"analyses"}, analyses |-> {}]}
    /\ now = 0
    /\ last_click = NoClick
    /\ report_pc = "idle"
    /\ report_data = NoData
    /\ stats = NoData
    /\ analysis = NoAnalysis
    /\ analysis_report_txt = NoAnalysis
    /\ alert_posts = <<>>
    /\ CHECK_INTERVAL = TestingInterval
    /\ configured = FALSE
    /\ pc = "stopped"
    /\ came_from = "boot"
    /\ data = NoData
    /\ machines = <<>>
    /\ idx = 0
    /\ message = NoMessage
    /\ chunk = 0
    /\ evaluated = <<>>
    /\ dispatched = <<>>
    /\ posts = <<>>
    /\ last_exc = NoException
    /\ slept = 0
    /\ previous_alerted = {}
    /\ subject = NoSubject
    /\ retval = NotCalled
    /\ SimulatorIdle

\* Store keeping the entries the machine already has.
Store_KeepsOld(analyses, entry) == analyses \cup {entry}

\* st.session_state['analyses'][selected_machine] = {'text': ..., 'time': ...}:
\* the dict holds one value per key.
Store(analyses, entry) ==
    {e \in analyses : e.machine # entry.machine} \cup {entry}

\* "Run AI Analysis" is pressed with a machine selected: an error message
\* without the key; otherwise get_ai_analysis, whose text is shown and
\* stored under the machine, or whose exception is shown.
RunAIAnalysis ==
    /\ now < MaxClicks
    /\ now' = now + 1
    /\ \E selected_machine \in {Machines(sensor_data_csv)[i] :
                                   i \in 1..Len(Machines(sensor_data_csv))} :
        IF ~GROQ_API_KEY
        THEN /\ last_click' = [button |-> "Run AI Analysis", machine |-> selected_machine,
                                outcome |-> "no key", text |-> "", time |-> now']
             /\ UNCHANGED session_state
        ELSE \/ \E text \in Answers :
                  /\ last_click' = [button |-> "Run AI Analysis",
                                    machine |-> selected_machine,
                                    outcome |-> "completed", text |-> text, time |-> now']
                  /\ session_state' =
                        [keys |-> session_state.keys \cup {"analyses"},
                         analyses |-> Store(session_state.analyses,
                                            [machine |-> selected_machine,
                                             text |-> text, time |-> now'])]
             \/ /\ last_click' = [button |-> "Run AI Analysis",
                                   machine |-> selected_machine,
                                   outcome |-> "failed", text |-> "", time |-> now']
                /\ UNCHANGED session_state
    /\ UNCHANGED <<monitor_vars, engine_vars, simulator_vars, report_vars>>

\* "Run Fleet Analysis (All Machines)" is pressed: an error message without
\* the key; otherwise every machine's analysis or its exception is shown in
\* an expander, and nothing is stored.
RunFleetAnalysis ==
    /\ now < MaxClicks
    /\ now' = now + 1
    /\ last_click' = [button |-> "Run Fleet Analysis", machine |-> "",
                      outcome |-> IF GROQ_API_KEY THEN "shown" ELSE "no key",
                      text |-> "", time |-> now']
    /\ UNCHANGED session_state
    /\ UNCHANGED <<monitor_vars, engine_vars, simulator_vars, report_vars>>

DashboardNext ==
    \/ RunAIAnalysis
    \/ RunFleetAnalysis

DashboardSpec == DashboardInit /\ [][DashboardNext]_vars

\* The entries st.session_state['analyses'] holds for machine m.
EntriesOf(analyses, m) == {e \in analyses : e.machine = m}

\* C29: st.session_state['analyses'] holds at most one entry per machine;
\* a completed "Run AI Analysis" for machine m leaves m with exactly the
\* text and the time of that analysis and every other machine's entry as it
\* was; a press that fails, finds no key, or runs the fleet analysis leaves
\* the store as it was.
C29_LastAnalysisStore ==
    /\ [](\A e \in session_state.analyses :
             EntriesOf(session_state.analyses, e.machine) = {e})
    /\ [][last_click'.outcome = "completed"
             => /\ EntriesOf(session_state'.analyses, last_click'.machine)
                     = {[machine |-> last_click'.machine, text |-> last_click'.text,
                         time |-> last_click'.time]}
                /\ session_state'.analyses \ EntriesOf(session_state'.analyses,
                                                        last_click'.machine)
                     = session_state.analyses \ EntriesOf(session_state.analyses,
                                                          last_click'.machine)]_vars
    /\ [][last_click'.outcome # "completed"
             => session_state' = session_state]_vars

\* The second analysis of one machine has replaced its first, and the entry
\* of the other machine, analysed in between, is still the one stored then.
C29_Witness ==
    /\ now = 3
    /\ last_click.outcome = "completed"
    /\ last_click.time = 3
    /\ Cardinality(session_state.analyses) = 2
    /\ \E e \in session_state.analyses : e.machine # last_click.machine /\ e.time = 2
    /\ \E e \in session_state.analyses :
          /\ e.machine = last_click.machine
          /\ e.time = 3
          /\ e.text = last_click.text

-----------------------------------------------------------------------------
(* The decision and the z-score shown with it *)

\* The z-score as stored and shown, r units of 10^-n, is beyond 2.
ShownBeyondTwo(r, n) == Abs(r.units) > AnomalyThreshold * (10 ^ n)

\* C30: a channel is labelled or listed as anomalous exactly when the
\* z-score reported for it (rounded to two decimals in the stats of
\* calculate_basic_stats and in the AI data summary, to one decimal in
\* get_z_scores and in the alert entries of check_machine) is beyond 2 in
\* absolute value, and the status calculate_basic_stats prints for a
\* channel is the label the AI data summary gives it.
C30_DecisionMatchesShownZ ==
    subject.kind = "series"
        => /\ retval.function = "calculate_basic_stats"
                => \A col \in ChannelSet :
                      retval.value.stats[col].status = "ANOMALY"
                          <=> ShownBeyondTwo(retval.value.stats[col].z_score_rounded, 2)
           /\ retval.function = "get_z_scores"
                => \A col \in ChannelSet :
                      retval.value.z_scores[col].is_anomaly
                          <=> ShownBeyondTwo(retval.value.z_scores[col].z_score_rounded, 1)
           /\ retval.function = "check_machine"
                => \A i \in 1..Len(retval.value.alerts) :
                      ShownBeyondTwo(retval.value.alerts[i].z_score_rounded, 1)
           /\ retval.function = "analyze_with_ai"
                => \A col \in ChannelSet :
                      retval.data_summary[col] = retval.value.stats[col].status

====
